---------------------------- MODULE Spec2Model ----------------------------
(***************************************************************************)
(* The priory node runtime (src/priory/src): the runtime task that owns    *)
(* the swarm and runs the main select loop, the event router, the          *)
(* bootstrap task, the hole-punch coordinator and the swarm client, with   *)
(* the swarm provider (libp2p) as the environment.                         *)
(*                                                                         *)
(* Strings are sequences of atoms.  The atom " " is one space character;   *)
(* every other atom is a non-empty run of characters without a space (a    *)
(* peer id in text form, a multiaddress in text form, a message prefix, a  *)
(* word that parses as nothing).  split(" "), strip_prefix, trim and       *)
(* format! are computed on these sequences as the code computes them on    *)
(* characters.                                                             *)
(***************************************************************************)
EXTENDS Integers, Sequences, FiniteSets, TLC

VARIABLES
    cfg_peers,      \* Config.peers
    rt_pc,          \* position of the runtime task (P2pNode::run)
    rt_event,       \* the provider event the runtime is handling
    relays,         \* P2pNode.relays
    swarm,          \* the provider's state: listeners, connections, routing table
    boot,           \* start-up: what listen_on_addrs and start have done
    cmdQ,           \* command channel (swarm_command_sender/receiver)
    bsQ,            \* bootstrap event channel
    hpQ,            \* hole-punch event channel
    reqQ,           \* hole-punch request channel
    slots,          \* the oneshot reply slots, by command id
    provLog,        \* what the runtime asked of the provider, in order
    nEvents,        \* provider events emitted so far
    bs_pc,          \* position of the bootstrap task
    bs_i,           \* index of the configured peer being dialed
    failed_to_dial, \* bootstrap's failed_to_dial
    hp_pc,          \* position of the hole-punch coordinator
    hp,             \* the coordinator's locals
    cl_pc,          \* position of the external client (an RPC handler)
    cl_n,           \* client operations started so far
    cl_slot,        \* the reply slot the client waits on
    hist,           \* history: what each task has sent, for stating claims
    calc            \* a call of one of the node's pure functions: input and result

vars == <<calc, swarm, boot, cfg_peers, rt_pc, rt_event, relays, cmdQ, bsQ, hpQ, reqQ, slots,
          provLog, nEvents, bs_pc, bs_i, failed_to_dial, hp_pc, hp, cl_pc,
          cl_n, cl_slot, hist>>

-----------------------------------------------------------------------------
(* Bounds of the model *)

MaxEvents == 2           \* provider events in Spec
MaxHolepunchEvents == 4  \* provider events in SpecHolepunch
MaxBootstrapEvents == 4  \* provider events in SpecBootstrap
MaxClientOps == 1        \* queries of the external client
MaxCfgPeers == 2         \* length of Config.peers
MaxFloodFailures == 1    \* failed dials in SpecFlood
MaxStartEvents == 3      \* provider events in SpecStart
MaxMdnsEvents == 3       \* provider events in SpecMdns
UsizeBits == 4           \* width of usize in SpecMesh (the targets have 32 and 64)
MaxPunchEvents == 4      \* provider events in SpecPunch
MaxTextLen == 5          \* length of the texts given to find_ipv4, in segments and "/"
MaxRelayListLen == 3     \* length of their_relays given to compare_relay_lists
MaxPassPeers == 3        \* configured peers in SpecPass
MaxRequestEvents == 3    \* provider events in SpecRequests
MaxRelayEvents == 3      \* provider events in SpecRelays
MaxForeignEvents == 3    \* provider events in SpecForeignDial

(* Program constants *)

CommandChannelCapacity == 16
BootstrapEventCapacity == 16
HolepunchEventCapacity == 16
HolepunchReqCapacity == 16

-----------------------------------------------------------------------------
(* Peer identities and multiaddresses *)

Self == "me"
OtherPeers == {"p1", "p2"}
PeerIds == OtherPeers \cup {Self}

\* Multiaddress values.  "" is Multiaddr::empty().
RealAddrs == {"a1", "a2", "lo"}
EmptyAddr == ""

\* The text of a multiaddress cut at "/" (str::split("/")): the text starts
\* with "/", so the first part is empty.
AddrParts(a) ==
    CASE a = "a1" -> <<"", "ip4", "10.0.0.1", "tcp", "4001">>
      [] a = "a2" -> <<"", "ip4", "10.0.0.2", "tcp", "4001">>
      [] a = "lo" -> <<"", "ip4", "127.0.0.1", "tcp", "4001">>
      [] OTHER    -> <<"">>

None == [some |-> FALSE, v |-> ""]
Some(x) == [some |-> TRUE, v |-> x]

RECURSIVE Position(_, _, _)
Position(parts, word, i) ==
    IF i > Len(parts) THEN 0
    ELSE IF parts[i] = word THEN i
    ELSE Position(parts, word, i + 1)

\* A variant of find_ipv4 that looks after the last "ip4" (sensitivity of C23)
RECURSIVE PositionFromEnd(_, _, _)
PositionFromEnd(parts, word, i) ==
    IF i < 1 THEN 0
    ELSE IF parts[i] = word THEN i
    ELSE PositionFromEnd(parts, word, i - 1)

find_last_ipv4(parts) ==
    LET p == PositionFromEnd(parts, "ip4", Len(parts)) IN
    IF p = 0 THEN None
    ELSE IF p + 1 > Len(parts) THEN None ELSE Some(parts[p + 1])

\* find_ipv4 on the parts of the text: the part after the first "ip4".
find_ipv4(parts) ==
    LET p == Position(parts, "ip4", 1) IN
    IF p = 0 THEN None
    ELSE IF p + 1 > Len(parts) THEN None ELSE Some(parts[p + 1])

-----------------------------------------------------------------------------
(* Text *)

SP == " "
WANT_RELAY_FOR_PREFIX == "WANT RELAY FOR "
I_HAVE_RELAYS_PREFIX == "I HAVE RELAYS "
Junk == "zz"

\* str::strip_prefix
strip_prefix(s, prefix) ==
    IF Len(s) >= 1 /\ s[1] = prefix THEN Some(Tail(s)) ELSE [some |-> FALSE, v |-> <<>>]

\* str::split(" "): one piece more than there are spaces, empty pieces kept.
RECURSIVE SplitFrom(_, _, _)
SplitFrom(s, i, piece) ==
    IF i > Len(s) THEN <<piece>>
    ELSE IF s[i] = SP THEN <<piece>> \o SplitFrom(s, i + 1, <<>>)
    ELSE SplitFrom(s, i + 1, Append(piece, s[i]))

split(s) == SplitFrom(s, 1, <<>>)

RECURSIVE TrimStart(_)
TrimStart(s) == IF s # <<>> /\ Head(s) = SP THEN TrimStart(Tail(s)) ELSE s

RECURSIVE TrimEnd(_)
TrimEnd(s) ==
    IF s # <<>> /\ s[Len(s)] = SP THEN TrimEnd(SubSeq(s, 1, Len(s) - 1)) ELSE s

\* str::trim
trim(s) == TrimEnd(TrimStart(s))

\* PeerId::from_str on one piece of a split
ParsePeerId(piece) ==
    IF Len(piece) = 1 /\ piece[1] \in PeerIds THEN Some(piece[1]) ELSE None

\* Multiaddr::from_str on one piece of a split: the outcomes the library can
\* give.  The text of a multiaddress parses to it, a word does not parse.
\* The empty text holds no protocol: Multiaddr::empty(), or an error.
ParseMultiaddr(piece) ==
    IF piece = <<>> THEN {Some(EmptyAddr), None}
    ELSE IF Len(piece) = 1 /\ piece[1] \in RealAddrs THEN {Some(piece[1])}
    ELSE {None}

\* The parts of one piece of a split, as find_ipv4 cuts its text at "/".
\* A variant of IsLoopback that looks for the host name (sensitivity of C15)
IsLocalhostName(parts) == find_ipv4(parts) = Some("localhost")

PieceParts(piece) ==
    IF Len(piece) = 1 /\ piece[1] \in RealAddrs THEN AddrParts(piece[1])
    ELSE IF piece = <<>> THEN <<"">>
    ELSE <<"zz">>

IsLoopback(parts) == find_ipv4(parts) = Some("127.0.0.1")

-----------------------------------------------------------------------------
(* Provider events, commands, multiaddresses handed to Dial *)

NoPeer == "-"

Ev(kind, peer, ok, msg, addrs, hop) ==
    [kind |-> kind, peer |-> peer, ok |-> ok, msg |-> msg, addrs |-> addrs, hop |-> hop]

NoEvent == Ev("None", NoPeer, FALSE, <<>>, <<>>, FALSE)

ConnectionEstablished(p) == Ev("ConnectionEstablished", p, TRUE, <<>>, <<>>, FALSE)
OutgoingConnectionError == Ev("OutgoingConnectionError", NoPeer, FALSE, <<>>, <<>>, FALSE)
\* OutgoingConnectionError { peer_id, .. } of the provider for the dial that
\* was aimed at peer p
OutgoingConnectionErrorOf(p) == Ev("OutgoingConnectionError", p, FALSE, <<>>, <<>>, FALSE)
ConnectionClosed(p) == Ev("ConnectionClosed", p, FALSE, <<>>, <<>>, FALSE)
IdentifySent == Ev("IdentifySent", NoPeer, FALSE, <<>>, <<>>, FALSE)
IdentifyReceived(p, addrs, hop) == Ev("IdentifyReceived", p, FALSE, <<>>, addrs, hop)
GossipMessage(m) == Ev("GossipMessage", NoPeer, FALSE, m, <<>>, FALSE)
DcutrResult(p, ok) == Ev("Dcutr", p, ok, <<>>, <<>>, FALSE)
KadBootstrapTimeout(p) == Ev("KadBootstrapTimeout", p, FALSE, <<>>, <<>>, FALSE)
\* The listener on the circuit address of relay p at multiaddress a has closed
ListenerClosed(p, a) == Ev("ListenerClosed", p, FALSE, <<>>, <<a>>, FALSE)
\* NewListenAddr { address }
NewListenAddr(a) == Ev("NewListenAddr", NoPeer, FALSE, <<>>, <<a>>, FALSE)

\* mdns::Event::Discovered(list): list holds (peer_id, multiaddr) pairs
MdnsDiscovered(list) == Ev("MdnsDiscovered", NoPeer, FALSE, <<>>, list, FALSE)

\* A multiaddress as handed to Dial or listen_on:
\* <base>[/p2p/<relay_peer>][/p2p-circuit][/p2p/<target>]
Addr(base, relay_peer, circuit, target) ==
    [base |-> base, relay_peer |-> relay_peer, circuit |-> circuit, target |-> target]

Plain(a) == Addr(a, NoPeer, FALSE, NoPeer)

\* Multiaddr::with_p2p(peer) on an address that ends in no peer id
with_p2p(a, peer) ==
    IF a.circuit THEN [a EXCEPT !.target = peer] ELSE [a EXCEPT !.relay_peer = peer]

\* Multiaddr::with(Protocol::P2pCircuit)
with_circuit(a) == [a EXCEPT !.circuit = TRUE]

Peer(multiaddr, peer_id) == [multiaddr |-> multiaddr, peer_id |-> peer_id]

\* listen_addr_tcp and listen_addr_quic of listen_on_addrs:
\* /ip4/0.0.0.0/tcp/<port> and /ip4/0.0.0.0/udp/<port>/quic-v1
listen_addr_tcp == Plain("tcp0")
listen_addr_quic == Plain("quic0")

\* The circuit address the Identify arm listens on for a relay
CircuitListenAddr(relay_multiaddr, peer_id) ==
    with_circuit(with_p2p(Plain(relay_multiaddr), peer_id))

\* The provider's own state after it has emitted event e: the connections it
\* reports and the listeners that are active.
SwarmAfter(sw, e) ==
    CASE e.kind = "ConnectionEstablished" -> [sw EXCEPT !.connected = @ \cup {e.peer}]
      [] e.kind = "ConnectionClosed" -> [sw EXCEPT !.connected = @ \ {e.peer}]
      [] e.kind = "ListenerClosed" ->
            [sw EXCEPT !.listeners = @ \ {CircuitListenAddr(e.addrs[1], e.peer)}]
      [] OTHER -> sw

NoSlot == 0

Cmd(kind, from, addr, data, slot) ==
    [kind |-> kind, from |-> from, addr |-> addr, data |-> data, slot |-> slot]

QueryKinds == {"MyRelays", "ConnectedPeers", "GossipsubMeshPeers",
               "KademliaRoutingTablePeers", "MyPeerId"}

\* BootstrapEvent::try_from_swarm_event.  OutgoingConnectionError has no
\* field: the peer of the failed dial is dropped.
BootstrapEvent_try_from(e) ==
    CASE e.kind = "ConnectionEstablished" -> Some(e)
      [] e.kind = "OutgoingConnectionError" -> Some(OutgoingConnectionError)
      [] OTHER -> [some |-> FALSE, v |-> NoEvent]

\* HolepunchEvent::try_from_swarm_event.  ConnectionEstablished loses its peer.
HolepunchEvent_try_from(e) ==
    CASE e.kind = "GossipMessage" -> Some(e)
      [] e.kind = "IdentifySent" -> Some(e)
      [] e.kind = "IdentifyReceived" -> Some(IdentifyReceived(NoPeer, <<>>, FALSE))
      [] e.kind = "Dcutr" -> Some(e)
      [] e.kind = "ConnectionEstablished" -> Some(ConnectionEstablished(NoPeer))
      [] e.kind = "OutgoingConnectionError" -> Some(OutgoingConnectionError)
      [] OTHER -> [some |-> FALSE, v |-> NoEvent]

-----------------------------------------------------------------------------
(* Channels: who still holds an end *)

\* The runtime task has ended (a panic unwinds run(): the command receiver and
\* the event and request senders it holds are dropped).
RuntimeGone == rt_pc = "panicked"

\* The bootstrap task has ended: its event receiver and its clone of the
\* request sender are dropped.
BootstrapEnded == bs_pc \in {"done", "fatal", "failed"}

\* The coordinator has ended: its event and request receivers are dropped.
CoordinatorEnded == hp_pc = "failed"

\* A variant of ChannelSend that puts the value in front of the buffered ones
\* (sensitivity of C14)
ChannelSendFront(q, x) == <<x>> \o q

\* Sender::send on an mpsc channel with room: the value goes behind the
\* buffered ones
ChannelSend(q, x) == Append(q, x)

\* Sender::is_closed() on the bootstrap event sender
bootstrap_event_sender_is_closed == BootstrapEnded

Log(op, addr, data, ok, via) ==
    [op |-> op, addr |-> addr, data |-> data, ok |-> ok, via |-> via]

NoAddr == Plain(EmptyAddr)

SlotValue(kind, rel) == [of |-> kind, relays |-> rel]

NoValue == SlotValue("None", {})

NewSlot(kind) == [kind |-> kind, st |-> "pending", val |-> NoValue, taken |-> FALSE, sent |-> 0]

\* oneshot::Sender::send(value)
SlotSend(sl, id, value) ==
    [sl EXCEPT ![id] = [@ EXCEPT !.st = "value", !.val = value, !.taken = TRUE,
                                 !.sent = @ + 1]]

\* The command is taken and its oneshot sender dropped with nothing sent.
SlotDrop(sl, id) ==
    [sl EXCEPT ![id] = [@ EXCEPT !.st = "dropped", !.taken = TRUE]]

-----------------------------------------------------------------------------
(* Runtime: P2pNode::run, exec_swarm_command, handle_swarm_event *)

\* History: the unwrap() that ended the runtime
Panicked(cause) == [hist EXCEPT !.rt_cause = cause]

\* What exec_swarm_command sends on the reply slot of a query: its match has
\* an arm for MyRelays, ConnectedPeers, GossipsubMeshPeers and
\* KademliaRoutingTablePeers, and none for MyPeerId.  The mesh peers are
\* some of the connected peers (the provider's choice).
ExecQuery(sl, c) ==
    CASE c.kind = "MyRelays" -> {SlotSend(sl, c.slot, SlotValue("MyRelays", relays))}
      [] c.kind = "ConnectedPeers" ->
            {SlotSend(sl, c.slot, SlotValue("ConnectedPeers", swarm.connected))}
      [] c.kind = "GossipsubMeshPeers" ->
            {SlotSend(sl, c.slot, SlotValue("GossipsubMeshPeers", mesh)) :
                mesh \in SUBSET swarm.connected}
      [] c.kind = "KademliaRoutingTablePeers" ->
            {SlotSend(sl, c.slot, SlotValue("KademliaRoutingTablePeers", swarm.kad))}
      [] OTHER -> {SlotDrop(sl, c.slot)}

\* The select arm `Some(command) = swarm_command_receiver.recv()` with
\* exec_swarm_command: publish(..).unwrap() and dial(..).unwrap() end the
\* runtime when the provider answers with an error.
RtExecCommand ==
    /\ rt_pc = "select"
    /\ cmdQ # <<>>
    /\ LET c == Head(cmdQ) IN
       /\ cmdQ' = Tail(cmdQ)
       /\ CASE c.kind = "GossipsubPublish" ->
                 \E ok \in BOOLEAN :
                    /\ provLog' = Append(provLog, Log("publish", NoAddr, c.data, ok, "command"))
                    /\ rt_pc' = IF ok THEN "select" ELSE "panicked"
                    /\ hist' = IF ok THEN hist ELSE Panicked("publish")
                    /\ slots' = slots
            [] c.kind = "Dial" ->
                 \E ok \in BOOLEAN :
                    /\ provLog' = Append(provLog, Log("dial", c.addr, <<>>, ok, "command"))
                    /\ rt_pc' = IF ok THEN "select" ELSE "panicked"
                    /\ hist' = IF ok THEN hist ELSE Panicked("dial")
                    /\ slots' = slots
            [] OTHER ->
                 /\ slots' \in ExecQuery(slots, c)
                 /\ UNCHANGED <<provLog, rt_pc, hist>>
    /\ UNCHANGED <<swarm, boot, calc, cfg_peers, rt_event, relays, bsQ, hpQ, reqQ, nEvents, bs_pc, bs_i,
                   failed_to_dial, hp_pc, hp, cl_pc, cl_n, cl_slot>>

\* Where handle_swarm_event goes after the bootstrap stage
AfterBootstrapStage(e) ==
    IF HolepunchEvent_try_from(e).some THEN "send_hp" ELSE "common"

\* The select arm `event = self.swarm.select_next_some()` up to the first
\* await of handle_swarm_event: the is_closed() check and the translation.
RtTakeEvent(e) ==
    /\ rt_pc = "select"
    /\ nEvents' = nEvents + 1
    /\ rt_event' = e
    /\ rt_pc' = IF ~bootstrap_event_sender_is_closed /\ BootstrapEvent_try_from(e).some
                THEN "send_bs" ELSE AfterBootstrapStage(e)
    /\ swarm' = SwarmAfter(swarm, e)
    /\ hist' = [hist EXCEPT !.emitted = IF hist.tracing THEN Append(@, e) ELSE @]
    /\ UNCHANGED <<boot, calc, cfg_peers, relays, cmdQ, bsQ, hpQ, reqQ, slots, provLog, bs_pc, bs_i,
                   failed_to_dial, hp_pc, hp, cl_pc, cl_n, cl_slot>>

\* bootstrap_event_sender.send(bootstrap_event).await.unwrap()
RtSendBootstrapEvent ==
    /\ rt_pc = "send_bs"
    /\ IF BootstrapEnded
       THEN /\ rt_pc' = "panicked"
            /\ hist' = Panicked("bootstrap event")
            /\ bsQ' = bsQ
       ELSE /\ Len(bsQ) < BootstrapEventCapacity
            /\ bsQ' = ChannelSend(bsQ, BootstrapEvent_try_from(rt_event).v)
            /\ rt_pc' = AfterBootstrapStage(rt_event)
            /\ hist' = hist
    /\ UNCHANGED <<swarm, boot, calc, cfg_peers, rt_event, relays, cmdQ, hpQ, reqQ, slots, provLog, nEvents,
                   bs_pc, bs_i, failed_to_dial, hp_pc, hp, cl_pc, cl_n, cl_slot>>

\* holepunch_event_sender.send(holepunch_event).await.unwrap()
RtSendHolepunchEvent ==
    /\ rt_pc = "send_hp"
    /\ IF CoordinatorEnded
       THEN /\ rt_pc' = "panicked"
            /\ hist' = Panicked("holepunch event")
            /\ hpQ' = hpQ
       ELSE /\ Len(hpQ) < HolepunchEventCapacity
            /\ hpQ' = ChannelSend(hpQ, HolepunchEvent_try_from(rt_event).v)
            /\ rt_pc' = "common"
            /\ hist' = hist
    /\ UNCHANGED <<swarm, boot, calc, cfg_peers, rt_event, relays, cmdQ, bsQ, reqQ, slots, provLog, nEvents,
                   bs_pc, bs_i, failed_to_dial, hp_pc, hp, cl_pc, cl_n, cl_slot>>

\* The orders in which a HashSet can be iterated
Orderings(S) ==
    {f \in [1..Cardinality(S) -> S] : \A i, j \in 1..Cardinality(S) : f[i] = f[j] => i = j}

\* The fold of stringify_relays_multiaddr over the relays in iteration order:
\* format!("{} {acc}", relay_peer.multiaddr)
RECURSIVE StringifyFold(_, _)
StringifyFold(order, acc) ==
    IF order = <<>> THEN acc
    ELSE StringifyFold(Tail(order), <<Head(order).multiaddr, SP>> \o acc)

stringify_relays_multiaddr(order) == trim(StringifyFold(order, <<>>))

\* format!("{I_HAVE_RELAYS_PREFIX}{my_peer_id} {relays_i_listen_to}")
RelayResponse(my_peer_id, order) ==
    <<I_HAVE_RELAYS_PREFIX, my_peer_id, SP>> \o stringify_relays_multiaddr(order)

\* A variant of WantsMyRelays that answers a request for any peer
\* (sensitivity of C7)
WantsAnyRelays(message) == strip_prefix(message, WANT_RELAY_FOR_PREFIX).some

\* handle_message: whether the message asks this node for its relays
WantsMyRelays(message) ==
    LET target_peer_id == strip_prefix(message, WANT_RELAY_FOR_PREFIX) IN
    target_peer_id.some /\ <<Self>> = target_peer_id.v

\* handle_message: the provider log after the message, for every iteration order
\* of the relays and both answers of gossipsub.publish (an error is logged).
handle_message(message, rel, log) ==
    IF WantsMyRelays(message)
    THEN {Append(log, Log("publish", NoAddr, RelayResponse(Self, order), ok, "handler")) :
             order \in Orderings(rel), ok \in BOOLEAN}
    ELSE {log}

\* The relay loop of the IdentifyReceived arm over listen_addrs: loopback
\* addresses are skipped, listen_on(circuit).unwrap() ends the runtime on an
\* error, add_relay inserts.  The set of outcomes.
RECURSIVE RelayLoop(_, _, _, _)
RelayLoop(listen_addrs, peer_id, rel, log) ==
    IF listen_addrs = <<>> THEN {[relays |-> rel, log |-> log, ok |-> TRUE]}
    ELSE LET relay_multiaddr == Head(listen_addrs)
             circuit_multiaddr == CircuitListenAddr(relay_multiaddr, peer_id)
         IN  IF IsLoopback(AddrParts(relay_multiaddr))
             THEN RelayLoop(Tail(listen_addrs), peer_id, rel, log)
             ELSE {[relays |-> rel,
                    log |-> Append(log, Log("listen", circuit_multiaddr, <<>>, FALSE, "handler")),
                    ok |-> FALSE]}
                  \cup RelayLoop(Tail(listen_addrs), peer_id,
                                 rel \cup {Peer(relay_multiaddr, peer_id)},
                                 Append(log, Log("listen", circuit_multiaddr, <<>>, TRUE, "handler")))

\* What swarm.dial(peer_id) can return: DialOpts from a peer id carry the
\* condition that the peer is not connected, so the dial of a connected peer
\* is refused; another dial is accepted, or refused for want of an address.
DialPeerOutcomes(sw, peer_id) ==
    IF peer_id \in sw.connected THEN {FALSE} ELSE BOOLEAN

\* The loop of the mDNS Discovered arm over the list: add_explicit_peer, then
\* swarm.dial(peer_id).unwrap(), which ends the runtime on an error.  The set
\* of outcomes.
RECURSIVE MdnsLoop(_, _, _)
MdnsLoop(list, sw, log) ==
    IF list = <<>> THEN {[swarm |-> sw, log |-> log, ok |-> TRUE]}
    ELSE LET peer_id == Head(list).peer_id
             marked == [sw EXCEPT !.explicit = @ \cup {peer_id}]
             target == with_p2p(NoAddr, peer_id)
         IN  UNION {IF ok
                    THEN MdnsLoop(Tail(list), marked,
                                  Append(log, Log("dial", target, <<>>, TRUE, "handler")))
                    ELSE {[swarm |-> marked,
                           log |-> Append(log, Log("dial", target, <<>>, FALSE, "handler")),
                           ok |-> FALSE]} : ok \in DialPeerOutcomes(sw, peer_id)}

\* A variant of IsRelay that takes every identified peer for a relay
\* (sensitivity of C38)
IsRelayAlways(e) == TRUE

\* `protocol == RELAY_SERVER_PROTOCOL_ID` for some protocol of the Identify
\* info
IsRelay(e) == e.hop

\* A variant of SendsRequest that also asks for a hole punch after a failed
\* dial (sensitivity of C37)
SendsRequestOnError(e) == e.kind \in {"KadBootstrapTimeout", "OutgoingConnectionError"}

\* The one arm of handle_common_event with holepunch_req_sender.send:
\* kad::QueryResult::Bootstrap(Err(BootstrapError::Timeout { peer, .. }))
SendsRequest(e) == e.kind = "KadBootstrapTimeout"

\* handle_common_event, up to its only await (the hole-punch request of the
\* Kademlia bootstrap timeout arm)
RtCommon ==
    /\ rt_pc = "common"
    /\ LET handled == [hist EXCEPT !.handled = IF hist.tracing THEN Append(@, rt_event)
                                                 ELSE @] IN
       CASE rt_event.kind = "ConnectionEstablished" ->
              /\ swarm' = [swarm EXCEPT !.kad = @ \cup {rt_event.peer}]
              /\ rt_pc' = "select"
              /\ rt_event' = NoEvent
              /\ hist' = handled
              /\ UNCHANGED <<relays, provLog>>
         [] rt_event.kind = "IdentifyReceived" ->
              \E o \in IF IsRelay(rt_event)
                        THEN RelayLoop(rt_event.addrs, rt_event.peer, relays, provLog)
                        ELSE {[relays |-> relays, log |-> provLog, ok |-> TRUE]} :
                 /\ relays' = o.relays
                 /\ provLog' = o.log
                 /\ swarm' = [swarm EXCEPT
                       !.listeners = @ \cup {o.log[i].addr : i \in {j \in DOMAIN o.log :
                                                  j > Len(provLog) /\ o.log[j].ok}},
                       !.kad = IF o.ok /\ rt_event.addrs # <<>> THEN @ \cup {rt_event.peer}
                               ELSE @]
                 /\ rt_pc' = IF o.ok THEN "select" ELSE "panicked"
                 /\ hist' = IF o.ok THEN handled
                            ELSE [handled EXCEPT !.rt_cause = "listen"]
                 /\ rt_event' = NoEvent
         [] rt_event.kind = "MdnsDiscovered" ->
              \E o \in MdnsLoop(rt_event.addrs, swarm, provLog) :
                 /\ swarm' = o.swarm
                 /\ provLog' = o.log
                 /\ rt_pc' = IF o.ok THEN "select" ELSE "panicked"
                 /\ hist' = IF o.ok THEN handled
                            ELSE [handled EXCEPT !.rt_cause = "mdns dial"]
                 /\ rt_event' = NoEvent
                 /\ relays' = relays
         [] rt_event.kind = "GossipMessage" ->
              /\ provLog' \in handle_message(rt_event.msg, relays, provLog)
              /\ rt_pc' = "select"
              /\ rt_event' = NoEvent
              /\ hist' = handled
              /\ UNCHANGED <<relays, swarm>>
         [] SendsRequest(rt_event) ->
              /\ rt_pc' = "send_req"
              /\ hist' = handled
              /\ UNCHANGED <<rt_event, relays, provLog, swarm>>
         [] OTHER ->
              /\ rt_pc' = "select"
              /\ rt_event' = NoEvent
              /\ hist' = handled
              /\ UNCHANGED <<relays, provLog, swarm>>
    /\ UNCHANGED <<boot, calc, cfg_peers, cmdQ, bsQ, hpQ, reqQ, slots, nEvents, bs_pc, bs_i,
                   failed_to_dial, hp_pc, hp, cl_pc, cl_n, cl_slot>>

\* holepunch_req_sender.send(peer).await.unwrap() of the Kademlia bootstrap
\* timeout arm
RtSendRequest ==
    /\ rt_pc = "send_req"
    /\ IF CoordinatorEnded
       THEN /\ rt_pc' = "panicked"
            /\ hist' = Panicked("holepunch request")
            /\ UNCHANGED <<reqQ, rt_event>>
       ELSE /\ Len(reqQ) < HolepunchReqCapacity
            /\ reqQ' = Append(reqQ, rt_event.peer)
            /\ hist' = [hist EXCEPT !.requests = Append(@, [peer |-> rt_event.peer, by |-> "runtime"])]
            /\ rt_pc' = "select"
            /\ rt_event' = NoEvent
    /\ UNCHANGED <<swarm, boot, calc, cfg_peers, relays, cmdQ, bsQ, hpQ, slots, provLog, nEvents, bs_pc, bs_i,
                   failed_to_dial, hp_pc, hp, cl_pc, cl_n, cl_slot>>

-----------------------------------------------------------------------------
(* Start-up: P2pNode::start, and run up to its main loop *)

\* start returns Ok(client): nothing in start waits for the spawned task.
StartReturns ==
    /\ ~boot.returned
    /\ boot' = [boot EXCEPT !.returned = TRUE]
    /\ UNCHANGED <<swarm, calc, cfg_peers, rt_pc, rt_event, relays, cmdQ, bsQ, hpQ, reqQ, slots,
                   provLog, nEvents, bs_pc, bs_i, failed_to_dial, hp_pc, hp, cl_pc, cl_n,
                   cl_slot, hist>>

\* Self::init(cfg).context(..).unwrap() in the spawned task
RtInit ==
    /\ rt_pc = "spawned"
    /\ \E ok \in BOOLEAN :
          /\ rt_pc' = IF ok THEN "listen_tcp" ELSE "panicked"
          /\ hist' = IF ok THEN hist ELSE Panicked("init")
    /\ UNCHANGED <<swarm, boot, calc, cfg_peers, rt_event, relays, cmdQ, bsQ, hpQ, reqQ, slots,
                   provLog, nEvents, bs_pc, bs_i, failed_to_dial, hp_pc, hp, cl_pc, cl_n,
                   cl_slot>>

\* swarm.listen_on(addr).context(..)? of listen_on_addrs: an Err ends run,
\* and the unwrap() of start's task panics.
ListenOn(at, addr, next) ==
    /\ rt_pc = at
    /\ \E ok \in BOOLEAN :
          /\ rt_pc' = IF ok THEN next ELSE "panicked"
          /\ swarm' = IF ok THEN [swarm EXCEPT !.listeners = @ \cup {addr}] ELSE swarm
          /\ hist' = IF ok THEN hist ELSE Panicked("listen_on_addrs")
    /\ UNCHANGED <<boot, calc, cfg_peers, rt_event, relays, cmdQ, bsQ, hpQ, reqQ, slots,
                   provLog, nEvents, bs_pc, bs_i, failed_to_dial, hp_pc, hp, cl_pc, cl_n,
                   cl_slot>>

RtListenTcp == ListenOn("listen_tcp", listen_addr_tcp, "listen_quic")

RtListenQuic == ListenOn("listen_quic", listen_addr_quic, "wait_listen")

\* A variant of ListenLoopDone that is content with one of the two addresses
\* (sensitivity of C19)
ListenLoopDoneWithOne(tcp, quic) == tcp \/ quic

\* `if listening_on_quic && listening_on_tcp { break; }`
ListenLoopDone(tcp, quic) == tcp /\ quic

\* The arm `event = self.swarm.next()` of the wait loop of listen_on_addrs:
\* a NewListenAddr for one of the two addresses sets its flag, every other
\* event is dropped.
RtListenWait(e) ==
    /\ rt_pc = "wait_listen"
    /\ nEvents' = nEvents + 1
    /\ swarm' = SwarmAfter(swarm, e)
    /\ LET address == Plain(e.addrs[1])
           tcp == boot.tcp \/ (e.kind = "NewListenAddr" /\ address = listen_addr_tcp)
           quic == boot.quic \/ (e.kind = "NewListenAddr" /\ address # listen_addr_tcp
                                 /\ address = listen_addr_quic)
       IN  /\ boot' = [boot EXCEPT !.tcp = tcp, !.quic = quic,
                                   !.reported = @ \/ e.kind = "NewListenAddr"]
           /\ rt_pc' = IF e.kind = "NewListenAddr" /\ ListenLoopDone(tcp, quic)
                       THEN "alive" ELSE "wait_listen"
    /\ UNCHANGED <<calc, cfg_peers, rt_event, relays, cmdQ, bsQ, hpQ, reqQ, slots, provLog,
                   bs_pc, bs_i, failed_to_dial, hp_pc, hp, cl_pc, cl_n, cl_slot, hist>>

\* The arm `_ = delay` of the wait loop: the one-second delay has elapsed.
RtGraceElapsed ==
    /\ rt_pc = "wait_listen"
    /\ boot' = [boot EXCEPT !.grace = TRUE]
    /\ rt_pc' = "alive"
    /\ UNCHANGED <<swarm, calc, cfg_peers, rt_event, relays, cmdQ, bsQ, hpQ, reqQ, slots,
                   provLog, nEvents, bs_pc, bs_i, failed_to_dial, hp_pc, hp, cl_pc, cl_n,
                   cl_slot, hist>>

\* println!("Sigil is alive.") and the return of listen_on_addrs
RtAlive ==
    /\ rt_pc = "alive"
    /\ boot' = [boot EXCEPT !.printed = @ + 1]
    /\ rt_pc' = "spawn_bootstrap"
    /\ UNCHANGED <<swarm, calc, cfg_peers, rt_event, relays, cmdQ, bsQ, hpQ, reqQ, slots,
                   provLog, nEvents, bs_pc, bs_i, failed_to_dial, hp_pc, hp, cl_pc, cl_n,
                   cl_slot, hist>>

\* Self::bootstrap(..): the bootstrap task is spawned
RtSpawnBootstrap ==
    /\ rt_pc = "spawn_bootstrap"
    /\ bs_pc' = "dial"
    /\ rt_pc' = "spawn_coordinator"
    /\ UNCHANGED <<swarm, boot, calc, cfg_peers, rt_event, relays, cmdQ, bsQ, hpQ, reqQ, slots,
                   provLog, nEvents, bs_i, failed_to_dial, hp_pc, hp, cl_pc, cl_n,
                   cl_slot, hist>>

\* Self::watch_for_holepunch_request(..): the coordinator is spawned, and run
\* enters its loop
RtSpawnCoordinator ==
    /\ rt_pc = "spawn_coordinator"
    /\ hp_pc' = "recv_req"
    /\ rt_pc' = "select"
    /\ UNCHANGED <<swarm, boot, calc, cfg_peers, rt_event, relays, cmdQ, bsQ, hpQ, reqQ, slots,
                   provLog, nEvents, bs_pc, bs_i, failed_to_dial, hp, cl_pc, cl_n,
                   cl_slot, hist>>

-----------------------------------------------------------------------------
(* Bootstrap task: bootstrap::bootstrap, spawned by P2pNode::bootstrap, whose *)
(* .unwrap() turns an Err into the task's panic ("failed")                    *)

\* A variant of LoopPeer that goes through cfg.peers from its end
\* (sensitivity of C34)
LoopPeerFromEnd(i) == cfg_peers[Len(cfg_peers) + 1 - i]

\* `for peer in &cfg.peers`: the peer of the i-th pass of the loop
LoopPeer(i) == cfg_peers[i]

\* A variant of push that puts the peer in front (sensitivity of C36)
push_front(failed, peer) == <<peer>> \o failed

\* failed_to_dial.push(peer.clone())
push(failed, peer) == Append(failed, peer)

\* A variant of WaitOutcome that takes the connection of any peer for the
\* awaited one (sensitivity of C35)
WaitOutcomeAnyPeer(e, peer) ==
    CASE e.kind = "ConnectionEstablished" -> "connected"
      [] e.kind = "OutgoingConnectionError" -> "failed"
      [] OTHER -> "skip"

\* The match of the wait loop on one event, peer being the peer just dialed:
\* break as connected, push and break as failed, or go round the loop
WaitOutcome(e, peer) ==
    CASE e.kind = "ConnectionEstablished" /\ e.peer = peer.peer_id -> "connected"
      [] e.kind = "OutgoingConnectionError" -> "failed"
      [] OTHER -> "skip"

\* swarm_client.dial(peer_multiaddr) for the next configured peer, or the end
\* of the loop over cfg.peers
BsDial ==
    /\ bs_pc = "dial"
    /\ IF bs_i > Len(cfg_peers)
       THEN /\ bs_pc' = "check"
            /\ UNCHANGED <<cmdQ, hist>>
       ELSE IF RuntimeGone
       THEN /\ bs_pc' = "failed"
            /\ UNCHANGED <<cmdQ, hist>>
       ELSE /\ Len(cmdQ) < CommandChannelCapacity
            /\ cmdQ' = Append(cmdQ, Cmd("Dial", "bootstrap", Plain(LoopPeer(bs_i).multiaddr),
                                        <<>>, NoSlot))
            /\ hist' = hist
            /\ bs_pc' = "wait"
    /\ UNCHANGED <<swarm, boot, calc, cfg_peers, rt_pc, rt_event, relays, bsQ, hpQ, reqQ, slots, provLog,
                   nEvents, bs_i, failed_to_dial, hp_pc, hp, cl_pc, cl_n, cl_slot>>

\* event_receiver.recv() in the wait loop, and the match on the event
BsRecv ==
    /\ bs_pc = "wait"
    /\ IF bsQ = <<>>
       THEN /\ RuntimeGone
            /\ bs_pc' = "failed"
            /\ UNCHANGED <<bsQ, bs_i, failed_to_dial>>
       ELSE LET e == Head(bsQ)
                peer == LoopPeer(bs_i)
            IN  /\ bsQ' = Tail(bsQ)
                /\ CASE WaitOutcome(e, peer) = "connected" ->
                          /\ bs_i' = bs_i + 1
                          /\ bs_pc' = "dial"
                          /\ failed_to_dial' = failed_to_dial
                     [] WaitOutcome(e, peer) = "failed" ->
                          /\ failed_to_dial' = push(failed_to_dial, peer)
                          /\ bs_i' = bs_i + 1
                          /\ bs_pc' = "dial"
                     [] OTHER ->
                          UNCHANGED <<bs_pc, bs_i, failed_to_dial>>
    /\ UNCHANGED <<swarm, boot, calc, cfg_peers, rt_pc, rt_event, relays, cmdQ, hpQ, reqQ, slots, provLog,
                   nEvents, hp_pc, hp, cl_pc, cl_n, cl_slot, hist>>

\* A variant of AllConfiguredDialsFailed that spares the node with one
\* configured peer (sensitivity of C9)
SeveralConfiguredDialsFailed ==
    Len(failed_to_dial) = Len(cfg_peers) /\ Len(cfg_peers) > 1

\* A variant of AllConfiguredDialsFailed without the test for an empty peer
\* list (sensitivity of C20)
NoConfiguredDialSucceeded == Len(failed_to_dial) = Len(cfg_peers)

\* `failed_to_dial.len() == cfg.peers.len() && !cfg.peers.is_empty()`
AllConfiguredDialsFailed ==
    Len(failed_to_dial) = Len(cfg_peers) /\ cfg_peers # <<>>

\* After the loop: the panic! when no configured peer could be dialed;
\* otherwise on to the requests (bs_i now runs over failed_to_dial).
BsCheck ==
    /\ bs_pc = "check"
    /\ bs_pc' = IF AllConfiguredDialsFailed THEN "fatal" ELSE "request"
    /\ bs_i' = 1
    /\ UNCHANGED <<swarm, boot, calc, cfg_peers, rt_pc, rt_event, relays, cmdQ, bsQ, hpQ, reqQ, slots, provLog,
                   nEvents, failed_to_dial, hp_pc, hp, cl_pc, cl_n, cl_slot, hist>>

\* holepunch_req_sender.send(peer.peer_id) for each peer of failed_to_dial
BsRequest ==
    /\ bs_pc = "request"
    /\ IF bs_i > Len(failed_to_dial)
       THEN /\ bs_pc' = "done"
            /\ UNCHANGED <<reqQ, bs_i, hist>>
       ELSE IF CoordinatorEnded
       THEN /\ bs_pc' = "failed"
            /\ UNCHANGED <<reqQ, bs_i, hist>>
       ELSE /\ Len(reqQ) < HolepunchReqCapacity
            /\ reqQ' = Append(reqQ, failed_to_dial[bs_i].peer_id)
            /\ hist' = [hist EXCEPT !.requests =
                            Append(@, [peer |-> failed_to_dial[bs_i].peer_id, by |-> "bootstrap"])]
            /\ bs_i' = bs_i + 1
            /\ bs_pc' = "request"
    /\ UNCHANGED <<swarm, boot, calc, cfg_peers, rt_pc, rt_event, relays, cmdQ, bsQ, hpQ, slots, provLog,
                   nEvents, failed_to_dial, hp_pc, hp, cl_pc, cl_n, cl_slot>>

-----------------------------------------------------------------------------
(* Hole-punch coordinator: holepuncher::watch_for_holepunch_request, spawned *)
(* by P2pNode::watch_for_holepunch_request, whose .unwrap() turns an Err     *)
(* into the task's panic ("failed")                                          *)

\* dialed and response are history: the event that ended the wait for the
\* dial of a possible relay, and the relays parsed from the response
HpIdle == [target |-> NoPeer, possible |-> <<>>, common |-> <<>>, todial |-> <<>>,
           phase |-> "none", slot |-> NoSlot, req |-> 0, dialed |-> "none",
           response |-> <<>>]

\* A variant of TakeRequest that takes the newest request (sensitivity of C5)
TakeNewest(q) == [peer |-> q[Len(q)], rest |-> SubSeq(q, 1, Len(q) - 1)]

\* Receiver::recv() on the request channel: the oldest request
TakeRequest(q) == [peer |-> Head(q), rest |-> Tail(q)]

\* `receiver.recv().await.context(..)?` of watch_for_holepunch_request
HpRecvRequest ==
    /\ hp_pc = "recv_req"
    /\ IF reqQ = <<>>
       THEN /\ RuntimeGone /\ BootstrapEnded
            /\ hp_pc' = "failed"
            /\ UNCHANGED <<reqQ, hp, hist>>
       ELSE LET r == TakeRequest(reqQ) IN
            /\ reqQ' = r.rest
            /\ hp' = [HpIdle EXCEPT !.target = r.peer, !.req = Len(hist.taken) + 1]
            /\ hist' = [hist EXCEPT !.taken = Append(@, r.peer)]
            /\ hp_pc' = "publish"
    /\ UNCHANGED <<swarm, boot, calc, cfg_peers, rt_pc, rt_event, relays, cmdQ, bsQ, hpQ, slots, provLog,
                   nEvents, bs_pc, bs_i, failed_to_dial, cl_pc, cl_n, cl_slot>>

\* The coordinator submits a command: SwarmClient::gossipsub_publish / dial,
\* `?` on a closed command channel.  next is where the coordinator goes on.
HpSubmit(c, next) ==
    IF RuntimeGone
    THEN /\ hp_pc' = "failed"
         /\ UNCHANGED <<cmdQ, hist>>
    ELSE /\ Len(cmdQ) < CommandChannelCapacity
         /\ cmdQ' = Append(cmdQ, c)
         /\ hist' = [hist EXCEPT !.hpCmds = Append(@, [req |-> hp.req, cmd |-> c])]
         /\ hp_pc' = next

\* format!("{WANT_RELAY_FOR_PREFIX}{target_peer_id}") and gossipsub_publish
HpPublish ==
    /\ hp_pc = "publish"
    /\ HpSubmit(Cmd("GossipsubPublish", "holepunch", NoAddr,
                    <<WANT_RELAY_FOR_PREFIX, hp.target>>, NoSlot), "wait_resp")
    /\ UNCHANGED <<swarm, boot, calc, cfg_peers, rt_pc, rt_event, relays, bsQ, hpQ, reqQ, slots, provLog,
                   nEvents, bs_pc, bs_i, failed_to_dial, hp, cl_pc, cl_n, cl_slot>>

\* A variant of ParseRelayList that skips no piece (sensitivity of C33)
RECURSIVE ParseRelayListAll(_)
ParseRelayListAll(pieces) ==
    IF pieces = <<>> THEN {[ok |-> TRUE, v |-> <<>>]}
    ELSE UNION {IF r.some
                THEN {[ok |-> t.ok, v |-> IF t.ok THEN <<r.v>> \o t.v ELSE <<>>] :
                         t \in ParseRelayListAll(Tail(pieces))}
                ELSE {[ok |-> FALSE, v |-> <<>>]} : r \in ParseMultiaddr(Head(pieces))}

\* The loop over str.iter().skip(1): loopback addresses skipped, the others
\* parsed and pushed; a parse error ends holepunch with Err.  The outcomes.
RECURSIVE ParseRelayList(_)
ParseRelayList(pieces) ==
    IF pieces = <<>> THEN {[ok |-> TRUE, v |-> <<>>]}
    ELSE IF IsLoopback(PieceParts(Head(pieces))) THEN ParseRelayList(Tail(pieces))
    ELSE UNION {IF r.some
                THEN {[ok |-> t.ok, v |-> IF t.ok THEN <<r.v>> \o t.v ELSE <<>>] :
                         t \in ParseRelayList(Tail(pieces))}
                ELSE {[ok |-> FALSE, v |-> <<>>]} : r \in ParseMultiaddr(Head(pieces))}

\* What the response loop of holepunch does with one gossip message:
\* "continue" the loop, "abandon" (return Ok), "fail" (Err) or "break" with
\* the possible relays.
ResponseOutcomes(message, target_peer_id) ==
    LET stripped == strip_prefix(message, I_HAVE_RELAYS_PREFIX)
        str == split(stripped.v)
        responded_peer_id == ParsePeerId(str[1])
    IN  IF ~stripped.some THEN {[act |-> "continue", relays |-> <<>>]}
        ELSE IF Len(str) <= 1 THEN {[act |-> "abandon", relays |-> <<>>]}
        ELSE IF ~responded_peer_id.some THEN {[act |-> "fail", relays |-> <<>>]}
        ELSE IF responded_peer_id.v # target_peer_id THEN {[act |-> "continue", relays |-> <<>>]}
        ELSE {IF r.ok THEN [act |-> "break", relays |-> r.v]
                      ELSE [act |-> "fail", relays |-> <<>>] :
                 r \in ParseRelayList(Tail(str))}

\* The response loop of holepunch
HpWaitResponse ==
    /\ hp_pc = "wait_resp"
    /\ IF hpQ = <<>>
       THEN /\ RuntimeGone
            /\ hp_pc' = "failed"
            /\ UNCHANGED <<hpQ, hp>>
       ELSE LET e == Head(hpQ) IN
            /\ hpQ' = Tail(hpQ)
            /\ IF e.kind # "GossipMessage"
               THEN UNCHANGED <<hp_pc, hp>>
               ELSE \E o \in ResponseOutcomes(e.msg, hp.target) :
                       CASE o.act = "continue" -> UNCHANGED <<hp_pc, hp>>
                         [] o.act = "abandon" -> hp_pc' = "recv_req" /\ hp' = HpIdle
                         [] o.act = "fail" -> hp_pc' = "failed" /\ hp' = hp
                         [] OTHER -> /\ hp_pc' = "my_relays"
                                     /\ hp' = [hp EXCEPT !.possible = o.relays,
                                                         !.response = o.relays]
    /\ UNCHANGED <<swarm, boot, calc, cfg_peers, rt_pc, rt_event, relays, cmdQ, bsQ, reqQ, slots, provLog,
                   nEvents, bs_pc, bs_i, failed_to_dial, cl_pc, cl_n, cl_slot, hist>>

\* SwarmClient::my_relays: the command with a fresh oneshot
HpMyRelays ==
    /\ hp_pc = "my_relays"
    /\ LET id == Len(slots) + 1 IN
       /\ HpSubmit(Cmd("MyRelays", "holepunch", NoAddr, <<>>, id), "await_relays")
       /\ IF RuntimeGone
          THEN UNCHANGED <<slots, hp>>
          ELSE /\ slots' = Append(slots, NewSlot("MyRelays"))
               /\ hp' = [hp EXCEPT !.slot = id]
    /\ UNCHANGED <<swarm, boot, calc, cfg_peers, rt_pc, rt_event, relays, bsQ, hpQ, reqQ, provLog,
                   nEvents, bs_pc, bs_i, failed_to_dial, cl_pc, cl_n, cl_slot>>

\* The HashMaps compare_relay_lists can build from my_relays: one Peer for each
\* multiaddress (of two relays with one multiaddress the later in iteration
\* order stays).
RelayMaps(my_relays) ==
    LET keys == {p.multiaddr : p \in my_relays} IN
    {m \in [keys -> my_relays] : \A k \in keys : m[k].multiaddr = k}

\* A variant of Partition that puts each common relay in front of the ones
\* found before (sensitivity of C30)
RECURSIVE PartitionFront(_, _, _, _)
PartitionFront(my_relay_map, their_relays, common_relays, relays_to_dial) ==
    IF their_relays = <<>> THEN [common |-> common_relays, to_dial |-> relays_to_dial]
    ELSE LET multiaddr == Head(their_relays) IN
         IF multiaddr \in DOMAIN my_relay_map
         THEN PartitionFront(my_relay_map, Tail(their_relays),
                             <<my_relay_map[multiaddr]>> \o common_relays, relays_to_dial)
         ELSE PartitionFront(my_relay_map, Tail(their_relays),
                             common_relays, Append(relays_to_dial, multiaddr))

\* A variant of Partition that keeps one copy of a multiaddress to dial
\* (sensitivity of C32)
RECURSIVE PartitionOnce(_, _, _, _)
PartitionOnce(my_relay_map, their_relays, common_relays, relays_to_dial) ==
    IF their_relays = <<>> THEN [common |-> common_relays, to_dial |-> relays_to_dial]
    ELSE LET multiaddr == Head(their_relays) IN
         IF multiaddr \in DOMAIN my_relay_map
         THEN PartitionOnce(my_relay_map, Tail(their_relays),
                            Append(common_relays, my_relay_map[multiaddr]), relays_to_dial)
         ELSE IF \E i \in DOMAIN relays_to_dial : relays_to_dial[i] = multiaddr
         THEN PartitionOnce(my_relay_map, Tail(their_relays), common_relays, relays_to_dial)
         ELSE PartitionOnce(my_relay_map, Tail(their_relays),
                            common_relays, Append(relays_to_dial, multiaddr))

\* compare_relay_lists with my_relay_map built
RECURSIVE Partition(_, _, _, _)
Partition(my_relay_map, their_relays, common_relays, relays_to_dial) ==
    IF their_relays = <<>> THEN [common |-> common_relays, to_dial |-> relays_to_dial]
    ELSE LET multiaddr == Head(their_relays) IN
         IF multiaddr \in DOMAIN my_relay_map
         THEN Partition(my_relay_map, Tail(their_relays),
                        Append(common_relays, my_relay_map[multiaddr]), relays_to_dial)
         ELSE Partition(my_relay_map, Tail(their_relays),
                        common_relays, Append(relays_to_dial, multiaddr))

compare_relay_lists(my_relays, their_relays) ==
    {Partition(m, their_relays, <<>>, <<>>) : m \in RelayMaps(my_relays)}

\* `receiver.await.context("receive my_relays")?` and compare_relay_lists
HpAwaitRelays ==
    /\ hp_pc = "await_relays"
    /\ LET s == slots[hp.slot] IN
       IF s.st = "value"
       THEN \E r \in compare_relay_lists(s.val.relays, hp.possible) :
               /\ hp' = [hp EXCEPT !.common = r.common, !.todial = r.to_dial, !.possible = <<>>]
               /\ hp_pc' = "common"
       ELSE /\ s.st = "dropped" \/ RuntimeGone
            /\ hp_pc' = "failed"
            /\ hp' = hp
    /\ UNCHANGED <<swarm, boot, calc, cfg_peers, rt_pc, rt_event, relays, cmdQ, bsQ, hpQ, reqQ, slots, provLog,
                   nEvents, bs_pc, bs_i, failed_to_dial, cl_pc, cl_n, cl_slot, hist>>

\* exec_holepunch: the address it dials,
\* relay_addr.with(Protocol::P2pCircuit).with_p2p(target_peer_id)
HolepunchAddr(relay_addr, target_peer_id) ==
    with_p2p(with_circuit(relay_addr), target_peer_id)

\* The loop over common_relays: the next common relay with its peer id
\* appended, and the Dial of exec_holepunch; after the last one, on to the
\* possible relays.
HpCommon ==
    /\ hp_pc = "common"
    /\ IF hp.common = <<>>
       THEN /\ hp_pc' = "candidate"
            /\ UNCHANGED <<cmdQ, hist, hp>>
       ELSE LET relay == Head(hp.common)
                relay_address == with_p2p(Plain(relay.multiaddr), relay.peer_id)
            IN  /\ HpSubmit(Cmd("Dial", "holepunch", HolepunchAddr(relay_address, hp.target),
                                <<>>, NoSlot), "exec_wait")
                /\ hp' = [hp EXCEPT !.phase = "common"]
    /\ UNCHANGED <<swarm, boot, calc, cfg_peers, rt_pc, rt_event, relays, bsQ, hpQ, reqQ, slots, provLog,
                   nEvents, bs_pc, bs_i, failed_to_dial, cl_pc, cl_n, cl_slot>>

\* A variant of IsResultFor that takes the DCUtR result about any peer
\* (sensitivity of C31)
IsResultForAny(e, target_peer_id) == e.kind = "Dcutr"

\* The two DCUtR arms of exec_holepunch's match with their
\* `remote_peer_id == target_peer_id`
IsResultFor(e, target_peer_id) == e.kind = "Dcutr" /\ e.peer = target_peer_id

\* The wait loop of exec_holepunch: a DCUtR result about the target ends it,
\* everything else is ignored.  Ok(true) ends holepunch; Ok(false) goes to the
\* next relay of the loop that called.
HpExecWait ==
    /\ hp_pc = "exec_wait"
    /\ IF hpQ = <<>>
       THEN /\ RuntimeGone
            /\ hp_pc' = "failed"
            /\ UNCHANGED <<hpQ, hp>>
       ELSE LET e == Head(hpQ) IN
            /\ hpQ' = Tail(hpQ)
            /\ IF IsResultFor(e, hp.target)
               THEN IF e.ok
                    THEN hp_pc' = "recv_req" /\ hp' = HpIdle
                    ELSE IF hp.phase = "common"
                    THEN hp_pc' = "common" /\ hp' = [hp EXCEPT !.common = Tail(@)]
                    ELSE hp_pc' = "candidate" /\ hp' = [hp EXCEPT !.todial = Tail(@)]
               ELSE UNCHANGED <<hp_pc, hp>>
    /\ UNCHANGED <<swarm, boot, calc, cfg_peers, rt_pc, rt_event, relays, cmdQ, bsQ, reqQ, slots, provLog,
                   nEvents, bs_pc, bs_i, failed_to_dial, cl_pc, cl_n, cl_slot, hist>>

\* The loop over possible_relays: the Dial of the plain relay address; after
\* the last one holepunch returns Ok.
HpCandidate ==
    /\ hp_pc = "candidate"
    /\ IF hp.todial = <<>>
       THEN /\ hp_pc' = "recv_req"
            /\ hp' = HpIdle
            /\ UNCHANGED <<cmdQ, hist>>
       ELSE /\ HpSubmit(Cmd("Dial", "holepunch", Plain(Head(hp.todial)), <<>>, NoSlot),
                        "candidate_wait")
            /\ hp' = [hp EXCEPT !.phase = "candidate"]
    /\ UNCHANGED <<swarm, boot, calc, cfg_peers, rt_pc, rt_event, relays, bsQ, hpQ, reqQ, slots, provLog,
                   nEvents, bs_pc, bs_i, failed_to_dial, cl_pc, cl_n, cl_slot>>

\* "wait until we make or don't make connection": ConnectionEstablished and
\* OutgoingConnectionError both break the loop.
HpCandidateWait ==
    /\ hp_pc = "candidate_wait"
    /\ IF hpQ = <<>>
       THEN /\ RuntimeGone
            /\ hp_pc' = "failed"
            /\ UNCHANGED <<hpQ, hp>>
       ELSE LET e == Head(hpQ) IN
            /\ hpQ' = Tail(hpQ)
            /\ IF e.kind \in {"ConnectionEstablished", "OutgoingConnectionError"}
               THEN hp_pc' = "candidate_exec" /\ hp' = [hp EXCEPT !.dialed = e.kind]
               ELSE UNCHANGED <<hp_pc, hp>>
    /\ UNCHANGED <<swarm, boot, calc, cfg_peers, rt_pc, rt_event, relays, cmdQ, bsQ, reqQ, slots, provLog,
                   nEvents, bs_pc, bs_i, failed_to_dial, cl_pc, cl_n, cl_slot, hist>>

\* exec_holepunch(relay_address, ..) for the possible relay just dialed
HpCandidateExec ==
    /\ hp_pc = "candidate_exec"
    /\ HpSubmit(Cmd("Dial", "holepunch", HolepunchAddr(Plain(Head(hp.todial)), hp.target),
                    <<>>, NoSlot), "exec_wait")
    /\ hp' = [hp EXCEPT !.dialed = "none"]
    /\ UNCHANGED <<swarm, boot, calc, cfg_peers, rt_pc, rt_event, relays, bsQ, hpQ, reqQ, slots, provLog,
                   nEvents, bs_pc, bs_i, failed_to_dial, cl_pc, cl_n, cl_slot>>

-----------------------------------------------------------------------------
(* An external holder of a SwarmClient (an RPC handler): the query methods *)

\* The send half of a query method: the command with a fresh oneshot, or the
\* Err of a closed command channel.
ClQuery(kind) ==
    /\ boot.returned
    /\ cl_pc = "idle"
    /\ cl_n < MaxClientOps
    /\ cl_n' = cl_n + 1
    /\ IF RuntimeGone
       THEN /\ hist' = [hist EXCEPT !.results = Append(@, [kind |-> kind, ok |-> FALSE, val |-> NoValue])]
            /\ UNCHANGED <<cmdQ, slots, cl_pc, cl_slot>>
       ELSE /\ Len(cmdQ) < CommandChannelCapacity
            /\ cmdQ' = Append(cmdQ, Cmd(kind, "client", NoAddr, <<>>, Len(slots) + 1))
            /\ slots' = Append(slots, NewSlot(kind))
            /\ cl_pc' = "await"
            /\ cl_slot' = Len(slots) + 1
            /\ hist' = hist
    /\ UNCHANGED <<swarm, boot, calc, cfg_peers, rt_pc, rt_event, relays, bsQ, hpQ, reqQ, provLog, nEvents,
                   bs_pc, bs_i, failed_to_dial, hp_pc, hp>>

\* The fire-and-forget methods gossipsub_publish and dial: the send, or the
\* Err of a closed command channel.
ClCommand(kind) ==
    /\ boot.returned
    /\ cl_pc = "idle"
    /\ cl_n < MaxClientOps
    /\ cl_n' = cl_n + 1
    /\ IF RuntimeGone
       THEN /\ hist' = [hist EXCEPT !.results = Append(@, [kind |-> kind, ok |-> FALSE, val |-> NoValue])]
            /\ cmdQ' = cmdQ
       ELSE /\ Len(cmdQ) < CommandChannelCapacity
            /\ cmdQ' = Append(cmdQ, Cmd(kind, "client",
                                        IF kind = "Dial" THEN Plain("a1") ELSE NoAddr,
                                        IF kind = "Dial" THEN <<>> ELSE <<Junk>>, NoSlot))
            /\ hist' = [hist EXCEPT !.results = Append(@, [kind |-> kind, ok |-> TRUE, val |-> NoValue])]
    /\ UNCHANGED <<swarm, boot, calc, cfg_peers, rt_pc, rt_event, relays, bsQ, hpQ, reqQ, slots, provLog,
                   nEvents, bs_pc, bs_i, failed_to_dial, hp_pc, hp, cl_pc, cl_slot>>

\* A variant of ReplyReady in which a command left in the channel keeps its
\* reply sender alive after the runtime is gone (sensitivity of C12)
ReplyFromRuntimeOnly(s) == s.st = "value" \/ s.st = "dropped"

\* The oneshot receiver resolves: a value was sent, or the sender was dropped,
\* by the runtime or with the commands still buffered when the command
\* receiver is dropped.
ReplyReady(s) == s.st = "value" \/ s.st = "dropped" \/ RuntimeGone

\* `receiver.await.context(..)`: the value, or the Err of a dropped sender
ClAwait ==
    /\ cl_pc = "await"
    /\ LET s == slots[cl_slot] IN
       /\ ReplyReady(s)
       /\ hist' = [hist EXCEPT !.results =
                       Append(@, [kind |-> s.kind, ok |-> s.st = "value", val |-> s.val])]
    /\ cl_pc' = "idle"
    /\ cl_slot' = NoSlot
    /\ UNCHANGED <<swarm, boot, calc, cfg_peers, rt_pc, rt_event, relays, cmdQ, bsQ, hpQ, reqQ, slots, provLog,
                   nEvents, bs_pc, bs_i, failed_to_dial, hp_pc, hp, cl_n>>

-----------------------------------------------------------------------------
(* The node after construction, and the provider's events *)

\* The peers a configuration can name
ConfigPeers == {Peer("a1", "p1"), Peer("a2", "p2")}

SeqsUpTo(S, n) == UNION {[1..k -> S] : k \in 0..n}

\* No pure function is being followed
NoCalc == [fn |-> "none", in |-> <<>>, out |-> <<>>]

\* The provider once both listen addresses are installed
SwarmListening ==
    [listeners |-> {listen_addr_tcp, listen_addr_quic}, connected |-> {}, kad |-> {},
     explicit |-> {}]

\* listen_on_addrs is over (here by its one-second delay) and start has
\* returned the client.
BootDone == [tcp |-> FALSE, quic |-> FALSE, reported |-> FALSE, grace |-> TRUE,
             printed |-> 1, returned |-> TRUE]

HistNone == [requests |-> <<>>, taken |-> <<>>, hpCmds |-> <<>>, results |-> <<>>,
             tracing |-> FALSE, emitted |-> <<>>, handled |-> <<>>, rt_cause |-> "none"]

\* The history that also records every event emitted and handled
HistTracing == [HistNone EXCEPT !.tracing = TRUE]

\* The node when run() enters its main loop: listen addresses registered,
\* channels made, bootstrap task and coordinator spawned.
TasksRunning(bootstrap_at, history) ==
    /\ rt_pc = "select"
    /\ rt_event = NoEvent
    /\ relays = {}
    /\ cmdQ = <<>>
    /\ bsQ = <<>>
    /\ hpQ = <<>>
    /\ reqQ = <<>>
    /\ slots = <<>>
    /\ provLog = <<>>
    /\ nEvents = 0
    /\ bs_pc = bootstrap_at
    /\ bs_i = 1
    /\ failed_to_dial = <<>>
    /\ hp_pc = "recv_req"
    /\ hp = HpIdle
    /\ cl_pc = "idle"
    /\ cl_n = 0
    /\ cl_slot = NoSlot
    /\ swarm = SwarmListening
    /\ boot = BootDone
    /\ hist = history

InitTasks(bootstrap_at, history) == TasksRunning(bootstrap_at, history) /\ calc = NoCalc

InitNode == InitTasks("dial", HistNone)

\* The response handle_message builds on node p for the relay addresses addrs
ResponseOf(p, addrs) == RelayResponse(p, [i \in DOMAIN addrs |-> Peer(addrs[i], "p2")])

\* The bootstrap task of a node with no configured peer
BootstrapNoPeers == BsDial \/ BsCheck \/ BsRequest

Bootstrap == BsDial \/ BsRecv \/ BsCheck \/ BsRequest

Coordinator ==
    \/ HpRecvRequest
    \/ HpPublish
    \/ HpWaitResponse
    \/ HpMyRelays
    \/ HpAwaitRelays
    \/ HpCommon
    \/ HpExecWait
    \/ HpCandidate
    \/ HpCandidateWait
    \/ HpCandidateExec

Client ==
    \/ \E kind \in QueryKinds : ClQuery(kind)
    \/ \E kind \in {"GossipsubPublish", "Dial"} : ClCommand(kind)
    \/ ClAwait

-----------------------------------------------------------------------------
(* Spec: a node with the default configuration (no peers), queried by a     *)
(* client, while peers identify themselves and ask for relays               *)

Init == cfg_peers = <<>> /\ InitNode

Events ==
    {IdentifyReceived("p2", <<"a1", "a2">>, TRUE), IdentifyReceived("p1", <<"lo", "a2">>, TRUE),
     IdentifyReceived("p1", <<"a1">>, FALSE),
     GossipMessage(<<WANT_RELAY_FOR_PREFIX, Self>>),
     GossipMessage(<<WANT_RELAY_FOR_PREFIX, "p1">>),
     GossipMessage(<<WANT_RELAY_FOR_PREFIX, Self, SP, "a1">>),
     ListenerClosed("p2", "a1"), ConnectionEstablished("p2")}

\* The provider reports the end of a listener that it has
ProviderCanEmit(e) ==
    e.kind = "ListenerClosed" => CircuitListenAddr(e.addrs[1], e.peer) \in swarm.listeners

Next ==
    \/ RtExecCommand
    \/ \E e \in Events : nEvents < MaxEvents /\ ProviderCanEmit(e) /\ RtTakeEvent(e)
    \/ RtSendBootstrapEvent
    \/ RtSendHolepunchEvent
    \/ RtCommon
    \/ BootstrapNoPeers
    \/ HpRecvRequest
    \/ Client

Spec == Init /\ [][Next]_vars

-----------------------------------------------------------------------------
(* SpecHolepunch: a node with no configured peer, its bootstrap task        *)
(* already over, whose provider reports Kademlia bootstrap timeouts, relay  *)
(* responses and connection results                                         *)

InitHolepunch == cfg_peers = <<>> /\ InitTasks("done", HistNone)

HolepunchEvents ==
    {KadBootstrapTimeout(p) : p \in OtherPeers}
    \cup {GossipMessage(m) : m \in
            {ResponseOf("p1", <<>>), ResponseOf("p1", <<"a1">>), ResponseOf("p1", <<"a2", "lo">>),
             <<I_HAVE_RELAYS_PREFIX, Junk, SP, "a1">>,
             <<I_HAVE_RELAYS_PREFIX, "p1", SP, Junk>>,
             <<I_HAVE_RELAYS_PREFIX, "p1">>}}
    \cup {ConnectionEstablished("p2"), OutgoingConnectionError,
          IdentifyReceived("p2", <<"a1">>, TRUE)}
    \cup {DcutrResult("p1", TRUE), DcutrResult("p1", FALSE)}

NextHolepunch ==
    \/ RtExecCommand
    \/ \E e \in HolepunchEvents : nEvents < MaxHolepunchEvents /\ RtTakeEvent(e)
    \/ RtSendHolepunchEvent
    \/ RtCommon
    \/ RtSendRequest
    \/ Coordinator

SpecHolepunch == InitHolepunch /\ [][NextHolepunch]_vars

\* The tasks are scheduled fairly (tokio runs every task that can make
\* progress); the provider is free never to emit another event.
FairSpecHolepunch ==
    /\ SpecHolepunch
    /\ WF_vars(RtExecCommand \/ RtSendHolepunchEvent \/ RtCommon \/ RtSendRequest)
    /\ WF_vars(Coordinator)

-----------------------------------------------------------------------------
(* SpecPunch: a node that listens on the circuit addresses of one or two    *)
(* relays, with a hole-punch request for p1 in the request channel, whose   *)
(* provider reports relay responses, connection results and DCUtR results   *)

\* The RelaySets of the node: relay p2 at a1, or at a1 and a2
PunchRelaySets == {{Peer("a1", "p2")}, {Peer("a1", "p2"), Peer("a2", "p2")}}

\* The node after the Identify of relay p2 (the circuit listeners are
\* installed) and a Kademlia bootstrap timeout for p1 (the request is queued)
InitPunch ==
    /\ cfg_peers = <<>>
    /\ rt_pc = "select"
    /\ rt_event = NoEvent
    /\ relays \in PunchRelaySets
    /\ cmdQ = <<>>
    /\ bsQ = <<>>
    /\ hpQ = <<>>
    /\ reqQ = <<"p1">>
    /\ slots = <<>>
    /\ provLog = <<>>
    /\ nEvents = 0
    /\ bs_pc = "done"
    /\ bs_i = 1
    /\ failed_to_dial = <<>>
    /\ hp_pc = "recv_req"
    /\ hp = HpIdle
    /\ cl_pc = "idle"
    /\ cl_n = 0
    /\ cl_slot = NoSlot
    /\ swarm = [SwarmListening EXCEPT
                   !.listeners = @ \cup {CircuitListenAddr(r.multiaddr, r.peer_id) : r \in relays},
                   !.kad = {"p2"}]
    /\ boot = BootDone
    /\ hist = [HistTracing EXCEPT !.requests = <<[peer |-> "p1", by |-> "runtime"]>>]
    /\ calc = NoCalc

PunchEvents ==
    {GossipMessage(ResponseOf("p1", <<"a1", "a2">>)),
     GossipMessage(ResponseOf("p1", <<"a2", "a1">>)),
     DcutrResult("p1", TRUE), DcutrResult("p1", FALSE), DcutrResult("p2", TRUE),
     ConnectionEstablished("p2"), OutgoingConnectionError}

NextPunch ==
    \/ RtExecCommand
    \/ \E e \in PunchEvents : nEvents < MaxPunchEvents /\ RtTakeEvent(e)
    \/ RtSendHolepunchEvent
    \/ RtCommon
    \/ Coordinator

SpecPunch == InitPunch /\ [][NextPunch]_vars

-----------------------------------------------------------------------------
(* SpecBootstrap: a node with configured peers whose provider reports the   *)
(* results of dials                                                         *)

InitBootstrap ==
    cfg_peers \in SeqsUpTo(ConfigPeers, MaxCfgPeers) /\ InitTasks("dial", HistTracing)

BootstrapEvents == {ConnectionEstablished(p) : p \in OtherPeers} \cup {OutgoingConnectionError}

NextBootstrap ==
    \/ RtExecCommand
    \/ \E e \in BootstrapEvents : nEvents < MaxBootstrapEvents /\ RtTakeEvent(e)
    \/ RtSendBootstrapEvent
    \/ RtSendHolepunchEvent
    \/ RtCommon
    \/ Bootstrap
    \/ HpRecvRequest
    \/ HpPublish
    \/ HpWaitResponse

SpecBootstrap == InitBootstrap /\ [][NextBootstrap]_vars

\* SpecPass: the same node with MaxPassPeers configured peers, so that a pass
\* over cfg.peers can fail for several peers and succeed for one
InitPass ==
    cfg_peers \in [1..MaxPassPeers -> ConfigPeers] /\ InitTasks("dial", HistTracing)

SpecPass == InitPass /\ [][NextBootstrap]_vars

\* SpecRequests: the node with configured peers whose provider also reports
\* Kademlia bootstrap timeouts, so that both the bootstrap task and the
\* runtime send hole-punch requests
RequestEvents ==
    {ConnectionEstablished("p1"), OutgoingConnectionError, KadBootstrapTimeout("p2")}

NextRequests ==
    \/ RtExecCommand
    \/ \E e \in RequestEvents : nEvents < MaxRequestEvents /\ RtTakeEvent(e)
    \/ RtSendBootstrapEvent
    \/ RtSendHolepunchEvent
    \/ RtCommon
    \/ RtSendRequest
    \/ Bootstrap
    \/ HpRecvRequest
    \/ HpPublish
    \/ HpWaitResponse

SpecRequests == InitBootstrap /\ [][NextRequests]_vars

-----------------------------------------------------------------------------
(* SpecRelays: a node with no configured peer, its bootstrap task over,     *)
(* whose provider reports Identify infos of relays and of other peers and   *)
(* the opening and closing of connections, and whose client sends commands  *)

InitRelays == cfg_peers = <<>> /\ InitTasks("done", HistTracing)

RelayEvents ==
    {IdentifyReceived("p2", <<"a1", "a2">>, TRUE), IdentifyReceived("p1", <<"a1">>, FALSE),
     ConnectionEstablished("p2"), ConnectionClosed("p2"), ListenerClosed("p2", "a1")}

NextRelays ==
    \/ RtExecCommand
    \/ \E e \in RelayEvents : nEvents < MaxRelayEvents /\ ProviderCanEmit(e) /\ RtTakeEvent(e)
    \/ RtSendHolepunchEvent
    \/ RtCommon
    \/ Client

SpecRelays == InitRelays /\ [][NextRelays]_vars

-----------------------------------------------------------------------------
(* SpecForeignDial: a node with configured peers on a local network where   *)
(* mDNS discovers p2: the runtime dials p2 while the bootstrap task dials    *)
(* the configured peers, and the provider reports the failure of a dial it   *)
(* has accepted                                                              *)

\* The peer a dialed address is aimed at: the peer id it ends in, or the
\* configured peer at that multiaddress
DialAim(addr) ==
    IF addr.relay_peer # NoPeer THEN addr.relay_peer
    ELSE IF \E c \in ConfigPeers : c.multiaddr = addr.base
    THEN (CHOOSE c \in ConfigPeers : c.multiaddr = addr.base).peer_id
    ELSE NoPeer

\* The provider reports a failed dial once for a dial it has accepted
ErrorDue(e) ==
    e.kind = "OutgoingConnectionError" =>
        Cardinality({i \in DOMAIN provLog :
                        provLog[i].op = "dial" /\ provLog[i].ok /\ DialAim(provLog[i].addr) = e.peer})
          > Cardinality({j \in DOMAIN hist.emitted : hist.emitted[j] = e})

ForeignDialEvents ==
    {MdnsDiscovered(<<Peer("a2", "p2")>>), ConnectionEstablished("p1"),
     OutgoingConnectionErrorOf("p1"), OutgoingConnectionErrorOf("p2")}

NextForeignDial ==
    \/ RtExecCommand
    \/ \E e \in ForeignDialEvents :
          nEvents < MaxForeignEvents /\ ErrorDue(e) /\ RtTakeEvent(e)
    \/ RtSendBootstrapEvent
    \/ RtSendHolepunchEvent
    \/ RtCommon
    \/ Bootstrap
    \/ HpRecvRequest
    \/ HpPublish
    \/ HpWaitResponse

SpecForeignDial == InitBootstrap /\ [][NextForeignDial]_vars

-----------------------------------------------------------------------------
(* SpecMdns: a node with no configured peer on a local network where mDNS   *)
(* discovers the other nodes, which may connect first                       *)

InitMdns == cfg_peers = <<>> /\ InitTasks("done", HistTracing)

MdnsEvents ==
    {MdnsDiscovered(<<Peer("a1", "p1")>>),
     MdnsDiscovered(<<Peer("a1", "p1"), Peer("a2", "p2")>>),
     ConnectionEstablished("p1"), ConnectionEstablished("p2")}

NextMdns ==
    \/ RtExecCommand
    \/ \E e \in MdnsEvents : nEvents < MaxMdnsEvents /\ RtTakeEvent(e)
    \/ RtSendHolepunchEvent
    \/ RtCommon
    \/ HpRecvRequest
    \/ \E kind \in {"ConnectedPeers", "KademliaRoutingTablePeers"} : ClQuery(kind)
    \/ ClAwait

SpecMdns == InitMdns /\ [][NextMdns]_vars

-----------------------------------------------------------------------------
(* SpecStart: start(config) for a configuration without peers, from the     *)
(* spawn of the runtime task                                                *)

\* start has spawned the runtime task and not yet returned; nothing is
\* installed on the provider.
TaskSpawned ==
    /\ cfg_peers = <<>>
    /\ rt_pc = "spawned"
    /\ rt_event = NoEvent
    /\ relays = {}
    /\ cmdQ = <<>>
    /\ bsQ = <<>>
    /\ hpQ = <<>>
    /\ reqQ = <<>>
    /\ slots = <<>>
    /\ provLog = <<>>
    /\ nEvents = 0
    /\ bs_pc = "unspawned"
    /\ bs_i = 1
    /\ failed_to_dial = <<>>
    /\ hp_pc = "unspawned"
    /\ hp = HpIdle
    /\ cl_pc = "idle"
    /\ cl_n = 0
    /\ cl_slot = NoSlot
    /\ swarm = [listeners |-> {}, connected |-> {}, kad |-> {}, explicit |-> {}]
    /\ boot = [tcp |-> FALSE, quic |-> FALSE, reported |-> FALSE, grace |-> FALSE,
               printed |-> 0, returned |-> FALSE]
    /\ hist = HistNone

InitStart == TaskSpawned /\ calc = NoCalc

StartEvents ==
    {NewListenAddr("tcp0"), NewListenAddr("quic0"), NewListenAddr("a1"),
     ConnectionEstablished("p2")}

NextStart ==
    \/ StartReturns
    \/ RtInit
    \/ RtListenTcp
    \/ RtListenQuic
    \/ \E e \in StartEvents : nEvents < MaxStartEvents /\ RtListenWait(e)
    \/ RtGraceElapsed
    \/ RtAlive
    \/ RtSpawnBootstrap
    \/ RtSpawnCoordinator
    \/ RtExecCommand
    \/ \E e \in StartEvents : nEvents < MaxStartEvents /\ RtTakeEvent(e)
    \/ RtSendBootstrapEvent
    \/ RtSendHolepunchEvent
    \/ RtCommon
    \/ BootstrapNoPeers
    \/ HpRecvRequest
    \/ Client

SpecStart == InitStart /\ [][NextStart]_vars

-----------------------------------------------------------------------------
(* SpecMesh: the gossipsub mesh degrees that init hands to the gossipsub    *)
(* builder, for every GossipsubConnections                                  *)

\* The variables of the node, which a pure function leaves alone
nodeVars == <<swarm, boot, cfg_peers, rt_pc, rt_event, relays, cmdQ, bsQ, hpQ, reqQ, slots,
              provLog, nEvents, bs_pc, bs_i, failed_to_dial, hp_pc, hp, cl_pc, cl_n,
              cl_slot, hist>>

UsizeMax == 2 ^ UsizeBits - 1
Usize == 0..UsizeMax

GossipsubConnections(target_num, lower_tolerance, upper_tolerance) ==
    [target_num |-> target_num, lower_tolerance |-> lower_tolerance,
     upper_tolerance |-> upper_tolerance]

\* GossipsubConnections::mesh_n
mesh_n(self) == self.target_num

\* GossipsubConnections::mesh_n_low
mesh_n_low(self) ==
    LET target_num == self.target_num
        lower_tolerance == self.lower_tolerance
    IN  IF lower_tolerance > target_num THEN 0 ELSE target_num - lower_tolerance

\* GossipsubConnections::mesh_n_high: usize addition.  A sum beyond usize::MAX
\* panics in a build with overflow checks and wraps in one without; -1 stands
\* for the panic.
mesh_n_high(self) ==
    LET sum == self.target_num + self.upper_tolerance IN
    IF sum <= UsizeMax THEN {sum} ELSE {sum % (UsizeMax + 1), -1}

\* init reads a configuration's num_gossipsub_connections
InitMesh ==
    /\ TaskSpawned
    /\ calc \in {[fn |-> "GossipsubConnections", in |-> GossipsubConnections(t, l, u),
                   out |-> <<>>] : t \in Usize, l \in Usize, u \in Usize}

\* .mesh_n(cfg.num_gossipsub_connections.mesh_n()) of init's gossipsub builder
CalcMeshN ==
    /\ calc.fn = "GossipsubConnections"
    /\ calc' = [calc EXCEPT !.fn = "mesh_n", !.out = <<mesh_n(calc.in)>>]
    /\ UNCHANGED nodeVars

\* .mesh_n_low(cfg.num_gossipsub_connections.mesh_n_low())
CalcMeshNLow ==
    /\ calc.fn = "mesh_n"
    /\ calc' = [calc EXCEPT !.fn = "mesh_n_low", !.out = Append(@, mesh_n_low(calc.in))]
    /\ UNCHANGED nodeVars

\* .mesh_n_high(cfg.num_gossipsub_connections.mesh_n_high())
CalcMeshNHigh ==
    /\ calc.fn = "mesh_n_low"
    /\ \E high \in mesh_n_high(calc.in) :
          calc' = [calc EXCEPT !.fn = "mesh_n_high", !.out = Append(@, high)]
    /\ UNCHANGED nodeVars

NextMesh == CalcMeshN \/ CalcMeshNLow \/ CalcMeshNHigh

SpecMesh == InitMesh /\ [][NextMesh]_vars

-----------------------------------------------------------------------------
(* SpecFindIpv4: find_ipv4 on every text.  A text is a sequence of "/" and  *)
(* of segments (non-empty runs of characters without "/"), no two segments  *)
(* next to each other.                                                      *)

SLASH == "/"
Segments == {"ip4", "1000", "abc"}

Texts ==
    {t \in SeqsUpTo(Segments \cup {SLASH}, MaxTextLen) :
        \A i \in 1..(Len(t) - 1) : t[i] = SLASH \/ t[i + 1] = SLASH}

\* str::split("/"): one part more than there are "/", empty parts kept ("")
RECURSIVE SplitSlashFrom(_, _, _)
SplitSlashFrom(t, i, part) ==
    IF i > Len(t) THEN <<part>>
    ELSE IF t[i] = SLASH THEN <<part>> \o SplitSlashFrom(t, i + 1, "")
    ELSE SplitSlashFrom(t, i + 1, t[i])

SplitSlash(t) == SplitSlashFrom(t, 1, "")

InitFindIpv4 ==
    /\ cfg_peers = <<>>
    /\ TasksRunning("done", HistNone)
    /\ calc \in {[fn |-> "multiaddr_str", in |-> t, out |-> <<>>] : t \in Texts}

\* `multiaddr_str.split("/").collect()`
CalcSplit ==
    /\ calc.fn = "multiaddr_str"
    /\ calc' = [calc EXCEPT !.fn = "multiaddr_parts", !.out = SplitSlash(calc.in)]
    /\ UNCHANGED nodeVars

\* The rest of find_ipv4: position(..) and get(index + 1)
CalcFindIpv4 ==
    /\ calc.fn = "multiaddr_parts"
    /\ calc' = [calc EXCEPT !.fn = "find_ipv4", !.out = find_ipv4(calc.out)]
    /\ UNCHANGED nodeVars

NextFindIpv4 == CalcSplit \/ CalcFindIpv4

SpecFindIpv4 == InitFindIpv4 /\ [][NextFindIpv4]_vars

-----------------------------------------------------------------------------
(* SpecCompare: compare_relay_lists on every RelaySet over two multiaddresses *)
(* and every list of multiaddresses up to MaxRelayListLen                     *)

MyRelaySets == SUBSET {Peer(a, p) : a \in {"a1", "a2"}, p \in OtherPeers}

InitCompare ==
    /\ cfg_peers = <<>>
    /\ TasksRunning("done", HistNone)
    /\ calc \in {[fn |-> "relay_lists", in |-> [my_relays |-> my, their_relays |-> theirs],
                  out |-> <<>>] :
                    my \in MyRelaySets, theirs \in SeqsUpTo(RealAddrs, MaxRelayListLen)}

\* `my_relays.iter().map(..).collect()` into the HashMap
CalcRelayMap ==
    /\ calc.fn = "relay_lists"
    /\ \E m \in RelayMaps(calc.in.my_relays) :
          calc' = [calc EXCEPT !.fn = "my_relay_map", !.out = m]
    /\ UNCHANGED nodeVars

\* The loop over their_relays and the returned pair
CalcCompare ==
    /\ calc.fn = "my_relay_map"
    /\ calc' = [calc EXCEPT !.fn = "compare_relay_lists",
                            !.out = Partition(calc.out, calc.in.their_relays, <<>>, <<>>)]
    /\ UNCHANGED nodeVars

NextCompare == CalcRelayMap \/ CalcCompare

SpecCompare == InitCompare /\ [][NextCompare]_vars

-----------------------------------------------------------------------------
(* SpecRelayResponse: the relay response of a node, built by handle_message *)
(* from its RelaySet and parsed by the coordinator of the node that asked   *)

\* The RelaySets without a loopback multiaddress
RelaySets == SUBSET {Peer(a, p) : a \in {"a1", "a2"}, p \in OtherPeers}

InitRelayResponse ==
    /\ cfg_peers = <<>>
    /\ TasksRunning("done", HistNone)
    /\ calc \in {[fn |-> "relays", in |-> [my_peer_id |-> id, relays |-> rel], out |-> <<>>] :
                    id \in PeerIds, rel \in RelaySets}

\* stringify_relays_multiaddr and the format! of handle_message, for an
\* iteration order of the HashSet
CalcResponse ==
    /\ calc.fn = "relays"
    /\ \E order \in Orderings(calc.in.relays) :
          calc' = [calc EXCEPT !.fn = "response",
                               !.out = RelayResponse(calc.in.my_peer_id, order)]
    /\ UNCHANGED nodeVars

\* The response loop of holepunch on that message, the responder being the
\* target
CalcParse ==
    /\ calc.fn = "response"
    /\ \E o \in ResponseOutcomes(calc.out, calc.in.my_peer_id) :
          calc' = [calc EXCEPT !.fn = "possible_relays", !.out = o]
    /\ UNCHANGED nodeVars

NextRelayResponse == CalcResponse \/ CalcParse

SpecRelayResponse == InitRelayResponse /\ [][NextRelayResponse]_vars

-----------------------------------------------------------------------------
(* SpecFlood: a node with more configured peers than the hole-punch event   *)
(* channel holds events, whose provider answers every dial the runtime      *)
(* hands it, once, and emits nothing else                                   *)

\* One peer more than the events the channel holds, or two
FloodPeers == {HolepunchEventCapacity + 1, HolepunchEventCapacity + 2}

InitFlood ==
    /\ cfg_peers \in {[i \in 1..n |-> Peer("a1", "p1")] : n \in FloodPeers}
    /\ InitTasks("dial", HistNone)

\* The dials the provider has accepted
DialsAccepted == Len(SelectSeq(provLog, LAMBDA l : l.op = "dial" /\ l.ok))

\* The provider's answers to a dial it has not answered yet
FloodAnswers ==
    IF DialsAccepted <= nEvents THEN {}
    ELSE {ConnectionEstablished("p1")}
         \cup (IF nEvents < MaxFloodFailures THEN {OutgoingConnectionError} ELSE {})

NextFlood ==
    \/ RtExecCommand
    \/ \E e \in FloodAnswers : RtTakeEvent(e)
    \/ RtSendBootstrapEvent
    \/ RtSendHolepunchEvent
    \/ RtCommon
    \/ Bootstrap
    \/ HpRecvRequest
    \/ HpPublish
    \/ HpWaitResponse

SpecFlood == InitFlood /\ [][NextFlood]_vars

\* Every task that can take a step is scheduled, and the provider answers
\* every dial it was handed.
FairSpecFlood ==
    /\ SpecFlood
    /\ WF_vars(RtExecCommand \/ RtSendBootstrapEvent \/ RtSendHolepunchEvent \/ RtCommon)
    /\ WF_vars(\E e \in FloodAnswers : RtTakeEvent(e))
    /\ WF_vars(Bootstrap)
    /\ WF_vars(HpRecvRequest \/ HpPublish \/ HpWaitResponse)

-----------------------------------------------------------------------------
(* Properties *)

\* C1: every query command the runtime takes from the command channel gets
\* exactly one value on its reply slot (so that my_peer_id() returns the
\* node's own peer identity).
C1_EveryQueryAnswered ==
    \A i \in DOMAIN slots :
        slots[i].taken => slots[i].st = "value" /\ slots[i].sent = 1

\* C2: a GossipsubPublish command that the provider rejects does not stop
\* the runtime.
C2_RejectedPublishSurvived ==
    ~(RuntimeGone /\ hist.rt_cause = "publish")

\* C3: while the runtime runs, the hole-punch coordinator never terminates,
\* whatever `I HAVE RELAYS` message it is given.
C3_CoordinatorNeverEnds ==
    ~RuntimeGone => ~CoordinatorEnded

\* C4: the wait for a relay response is finite: the coordinator leaves it
\* even when no response ever arrives.
C4_ResponseWaitEnds ==
    (hp_pc = "wait_resp") ~> (hp_pc # "wait_resp")

\* C5: hole-punch requests are taken in the order they were queued, and the
\* commands of one request are all submitted before any command of the next.
C5_RequestsInOrder ==
    /\ Len(hist.taken) <= Len(hist.requests)
    /\ \A i \in DOMAIN hist.taken : hist.taken[i] = hist.requests[i].peer
    /\ \A i, j \in DOMAIN hist.hpCmds :
          i < j => hist.hpCmds[i].req <= hist.hpCmds[j].req
    /\ \A i \in DOMAIN hist.hpCmds : hist.hpCmds[i].req <= Len(hist.taken)
    /\ hp_pc \notin {"recv_req", "failed"} => hp.req = Len(hist.taken)

\* C5: two requests for different peers were taken and each had a command
\* submitted.
C5_TwoRequestsRun ==
    /\ Len(hist.taken) = 2
    /\ hist.taken[1] # hist.taken[2]
    /\ \E i, j \in DOMAIN hist.hpCmds : hist.hpCmds[i].req = 1 /\ hist.hpCmds[j].req = 2

\* C6: when the coordinator receives the response of its target built from an
\* empty RelaySet, the request ends there: the coordinator goes back to the
\* request queue and submits no command.
C6_EmptyRelaySetEndsRequest ==
    [][(/\ hp_pc = "wait_resp"
        /\ hpQ # <<>>
        /\ Head(hpQ) = GossipMessage(RelayResponse(hp.target, <<>>))
        /\ hpQ' = Tail(hpQ))
       => (hp_pc' = "recv_req" /\ hist'.hpCmds = hist.hpCmds)]_vars

\* The multiaddresses of a response's tail, in order
AddrsOf(text) == SelectSeq(text, LAMBDA a : a # SP)

\* Multiaddresses separated by single spaces
WellSpaced(text) ==
    text # <<>> =>
       /\ Len(text) % 2 = 1
       /\ \A i \in DOMAIN text : (text[i] = SP) <=> (i % 2 = 0)

\* C7: handling a gossip message publishes a response iff the message is
\* `WANT RELAY FOR <own id>`; the response is `I HAVE RELAYS <own id> `
\* followed by exactly the multiaddresses of the RelaySet entries; any other
\* message publishes nothing; no node state changes.
C7_RelayRequestAnswered ==
    [][(rt_pc = "common" /\ rt_event.kind = "GossipMessage" /\ rt_pc' = "select")
       => /\ UNCHANGED <<relays, cmdQ, bsQ, hpQ, reqQ, slots>>
          /\ IF rt_event.msg = <<WANT_RELAY_FOR_PREFIX, Self>>
             THEN /\ Len(provLog') = Len(provLog) + 1
                  /\ SubSeq(provLog', 1, Len(provLog)) = provLog
                  /\ LET l == provLog'[Len(provLog')]
                         tail == SubSeq(l.data, 4, Len(l.data))
                     IN  /\ l.op = "publish"
                         /\ Len(l.data) >= 3
                         /\ SubSeq(l.data, 1, 3) = <<I_HAVE_RELAYS_PREFIX, Self, SP>>
                         /\ WellSpaced(tail)
                         /\ \A a \in RealAddrs \cup {EmptyAddr, SP} :
                               Len(SelectSeq(tail, LAMBDA x : x = a)) =
                                  IF a = SP THEN Len(tail) - Len(AddrsOf(tail))
                                  ELSE Cardinality({p \in relays : p.multiaddr = a})
                         /\ Len(AddrsOf(tail)) = Cardinality(relays)
             ELSE provLog' = provLog]_vars

\* C7: a response listing two relays was handed to the provider.
C7_TwoRelaysAnswered ==
    \E i \in DOMAIN provLog :
        /\ provLog[i].via = "handler"
        /\ provLog[i].op = "publish"
        /\ Len(AddrsOf(SubSeq(provLog[i].data, 4, Len(provLog[i].data)))) = 2
        /\ Cardinality(relays) = 2

\* C8: once the bootstrap task has raised the fatal error (no configured
\* peer could be dialed), the runtime processes nothing more: its only steps
\* end it.
C8_FatalStopsRuntime ==
    [][bs_pc = "fatal" =>
          \/ UNCHANGED <<rt_pc, rt_event, cmdQ, nEvents, provLog, relays, slots>>
          \/ rt_pc' = "panicked"
          \/ rt_pc = "panicked"]_vars

\* C9 (as amended): when the only configured peer's dial fails, the
\* bootstrap task sends no hole-punch request; it goes on to the fatal error.
C9_SinglePeerFailureIsFatal ==
    (Len(cfg_peers) = 1 /\ failed_to_dial = cfg_peers) =>
        /\ bs_pc \in {"dial", "check", "fatal"}
        /\ \A i \in DOMAIN hist.requests : hist.requests[i].by # "bootstrap"

\* C9: the only configured peer's dial failed and the bootstrap task ended.
C9_SinglePeerFailed ==
    Len(cfg_peers) = 1 /\ failed_to_dial = cfg_peers /\ bs_pc = "fatal"

\* C9 (as stated): when the only configured peer's dial fails, the bootstrap
\* task ends normally having sent that peer on the hole-punch request
\* channel.
C9_SinglePeerFailureRequested ==
    (Len(cfg_peers) = 1 /\ failed_to_dial = cfg_peers /\ BootstrapEnded) =>
        /\ bs_pc = "done"
        /\ \E i \in DOMAIN hist.requests :
              hist.requests[i] = [peer |-> cfg_peers[1].peer_id, by |-> "bootstrap"]

\* C10: the runtime is never ended by the end of the coordinator: an event or
\* a request for a coordinator that ended with an error is not fatal.
C10_RuntimeOutlivesCoordinator ==
    ~(RuntimeGone /\ hist.rt_cause \in {"holepunch event", "holepunch request"})

\* C11: executing a Dial command never stops the runtime, whatever the
\* provider answers to the dial.
C11_DialNeverStopsRuntime ==
    ~(RuntimeGone /\ hist.rt_cause = "dial")

\* C12: once the runtime has exited, a client operation does not block and
\* returns an error: an operation started after the exit, and a query whose
\* command was queued and not executed when the runtime exited.
C12_ClientFailsAfterExit ==
    /\ [](RuntimeGone /\ cl_pc = "await" => ENABLED ClAwait)
    /\ [](RuntimeGone /\ cl_pc = "idle" /\ cl_n < MaxClientOps =>
             /\ \A kind \in QueryKinds : ENABLED ClQuery(kind)
             /\ \A kind \in {"GossipsubPublish", "Dial"} : ENABLED ClCommand(kind))
    /\ [][(/\ RuntimeGone
           /\ Len(hist'.results) = Len(hist.results) + 1
           /\ cl_pc = "await" => slots[cl_slot].st = "pending")
          => ~hist'.results[Len(hist'.results)].ok]_vars

\* C12: the runtime exited with a query queued and not executed, and the
\* client has its answer.
C12_QueuedQueryFailed ==
    /\ RuntimeGone
    /\ cl_pc = "idle"
    /\ \E i \in DOMAIN slots : slots[i].st = "pending" /\ ~slots[i].taken
    /\ \E i \in DOMAIN hist.results : ~hist.results[i].ok

\* C13: while it handles an event the runtime never waits on another task:
\* the forward to the bootstrap or hole-punch event channel and the enqueue
\* of a hole-punch request can always be taken at once.
C13_ForwardNeverBlocks ==
    /\ rt_pc = "send_bs" => ENABLED RtSendBootstrapEvent
    /\ rt_pc = "send_hp" => ENABLED RtSendHolepunchEvent
    /\ rt_pc = "send_req" => ENABLED RtSendRequest

\* C17: the bootstrap task reaches its end when the provider answers every
\* bootstrap dial, for every length of the peer list.
C17_BootstrapTerminates ==
    <>BootstrapEnded

\* q is a run of consecutive elements of s
IsSegment(q, s) ==
    \E k \in 0..Len(s) : k + Len(q) <= Len(s) /\ \A i \in DOMAIN q : q[i] = s[k + i]

\* The translations of the events of s that a sub-channel is interested in
RECURSIVE Forwarded(_, _)
Forwarded(s, bootstrap) ==
    IF s = <<>> THEN <<>>
    ELSE LET t == IF bootstrap THEN BootstrapEvent_try_from(Head(s))
                  ELSE HolepunchEvent_try_from(Head(s))
         IN  (IF t.some THEN <<t.v>> ELSE <<>>) \o Forwarded(Tail(s), bootstrap)

HasIp4(parts, ip) ==
    \E i \in DOMAIN parts : i < Len(parts) /\ parts[i] = "ip4" /\ parts[i + 1] = ip

\* C15: the RelaySet never holds an entry whose multiaddress has the IPv4
\* component 127.0.0.1.
C15_NoLoopbackRelay ==
    \A p \in relays : ~HasIp4(AddrParts(p.multiaddr), "127.0.0.1")

\* C15: an Identify listing a loopback and another address was handled: the
\* other address is in the RelaySet.
C15_LoopbackSkipped ==
    /\ Peer("a2", "p1") \in relays
    /\ \E i \in DOMAIN provLog : provLog[i].addr = CircuitListenAddr("a2", "p1")

\* C16: every entry of the RelaySet has its circuit listen address
\* <relay_multiaddr>/p2p/<relay_peer_id>/p2p-circuit active on the provider.
C16_RelayHasListener ==
    \A p \in relays : CircuitListenAddr(p.multiaddr, p.peer_id) \in swarm.listeners

\* The queries about the provider's peers
PeerQueries == {"ConnectedPeers", "GossipsubMeshPeers", "KademliaRoutingTablePeers"}

\* C20: with no configured peer the bootstrap task submits no Dial, enqueues
\* no hole-punch request and raises no fatal error, and as long as the
\* provider has emitted no event connected_peers(), gossipsub_mesh_peers() and
\* kademlia_routing_table_peers() are answered with empty results.
C20_EmptyConfigIsQuiet ==
    cfg_peers = <<>> =>
        /\ bs_pc \in {"dial", "check", "request", "done"}
        /\ \A i \in DOMAIN cmdQ : cmdQ[i].from # "bootstrap"
        /\ \A i \in DOMAIN hist.requests : hist.requests[i].by # "bootstrap"
        /\ nEvents = 0 =>
              /\ \A i \in DOMAIN slots :
                    slots[i].kind \in PeerQueries /\ slots[i].taken =>
                       slots[i].st = "value" /\ slots[i].val.relays = {}
              /\ \A i \in DOMAIN hist.results :
                    hist.results[i].kind \in PeerQueries /\ hist.results[i].ok =>
                       hist.results[i].val.relays = {}

\* C20: the bootstrap task of a node without peers is over and a query about
\* the provider's peers was answered before any event.
C20_QuietNodeQueried ==
    /\ cfg_peers = <<>>
    /\ bs_pc = "done"
    /\ nEvents = 0
    /\ \E i \in DOMAIN hist.results :
          hist.results[i].kind \in PeerQueries /\ hist.results[i].ok

\* C18: start has returned the client only when both listen addresses are
\* installed on the provider and the provider has reported a listening
\* address or the one-second delay has elapsed.
C18_StartReturnsWhenListening ==
    boot.returned =>
        /\ {listen_addr_tcp, listen_addr_quic} \subseteq swarm.listeners
        /\ boot.reported \/ boot.grace

\* C19: `Sigil is alive.` is printed at most once, only after both listen
\* requests were made and both addresses were reported or the delay elapsed,
\* and it has been printed once before the bootstrap task, the coordinator
\* or the main loop starts.
C19_AliveLine ==
    /\ boot.printed <= 1
    /\ boot.printed = 1 =>
          /\ {listen_addr_tcp, listen_addr_quic} \subseteq swarm.listeners
          /\ (boot.tcp /\ boot.quic) \/ boot.grace
    /\ (\/ bs_pc # "unspawned"
        \/ hp_pc # "unspawned"
        \/ rt_pc \in {"spawn_bootstrap", "spawn_coordinator", "select", "send_bs", "send_hp",
                      "common", "send_req"})
       => boot.printed = 1

\* C19: the line was printed because both addresses were reported, and the
\* main loop runs.
C19_AliveAfterBothReported ==
    /\ boot.printed = 1
    /\ boot.tcp /\ boot.quic /\ ~boot.grace
    /\ rt_pc = "select"
    /\ bs_pc # "unspawned"

\* C21: every peer listed in an MdnsDiscovered event that the runtime has
\* handled is marked as an explicit gossip peer and was dialed.
C21_DiscoveredPeersDialed ==
    \A i \in DOMAIN hist.handled :
        hist.handled[i].kind = "MdnsDiscovered" =>
            \A k \in DOMAIN hist.handled[i].addrs :
                LET peer_id == hist.handled[i].addrs[k].peer_id IN
                /\ peer_id \in swarm.explicit
                /\ \E j \in DOMAIN provLog :
                      provLog[j].op = "dial" /\ provLog[j].addr = with_p2p(NoAddr, peer_id)

\* C22: for every (target_num, lower_tolerance, upper_tolerance) the degrees
\* handed to gossipsub are mesh_n = target_num, mesh_n_low = max(0,
\* target_num - lower_tolerance) and mesh_n_high = target_num +
\* upper_tolerance, so that mesh_n_low <= mesh_n <= mesh_n_high, and
\* mesh_n_low = 0 whenever lower_tolerance >= target_num.
C22_MeshDegreesOrdered ==
    calc.fn = "mesh_n_high" =>
        /\ calc.out[1] = calc.in.target_num
        /\ calc.out[2] = IF calc.in.target_num - calc.in.lower_tolerance > 0
                         THEN calc.in.target_num - calc.in.lower_tolerance ELSE 0
        /\ calc.out[3] = calc.in.target_num + calc.in.upper_tolerance
        /\ calc.out[2] <= calc.out[1]
        /\ calc.out[1] <= calc.out[3]
        /\ calc.in.lower_tolerance >= calc.in.target_num => calc.out[2] = 0

\* The first place of the segment ip4 in a text, 0 when there is none
FirstIp4(t) ==
    IF \E i \in DOMAIN t : t[i] = "ip4"
    THEN CHOOSE i \in DOMAIN t : t[i] = "ip4" /\ \A j \in 1..(i - 1) : t[j] # "ip4"
    ELSE 0

\* C23: find_ipv4 returns Some(X), X being the segment right after the first
\* segment equal to ip4 (the empty segment when a "/" follows at once or the
\* text ends with the "/"), whatever comes before; it returns None when no
\* segment is ip4 and when ip4 is the last segment.
C23_FindIpv4 ==
    calc.fn = "find_ipv4" =>
        LET t == calc.in
            i == FirstIp4(t)
        IN  IF i = 0 \/ i = Len(t) THEN calc.out = None
            ELSE calc.out = Some(IF i + 2 <= Len(t) /\ t[i + 2] # SLASH THEN t[i + 2] ELSE "")

\* C23: find_ipv4 has answered for a text with two ip4 segments, the first
\* behind another segment.
C23_SecondIp4Ignored ==
    /\ calc.fn = "find_ipv4"
    /\ calc.in = <<"abc", SLASH, "ip4", SLASH, "ip4">>
    /\ calc.out = Some("ip4")

\* C24: a relay response built from a peer id and a set of non-loopback relay
\* multiaddresses, the empty set included, is parsed by the coordinator into
\* the same id and exactly the same set of addresses.
C24_RelayResponseRoundTrip ==
    calc.fn = "possible_relays" =>
        /\ calc.out.act = "break"
        /\ {calc.out.relays[i] : i \in DOMAIN calc.out.relays} =
              {p.multiaddr : p \in calc.in.relays}

\* C25: the runtime, the bootstrap task and the coordinator never block one
\* another for good: every command submitted to a running runtime is taken
\* from the command channel, also after the provider has emitted more
\* hole-punch-relevant events than the hole-punch event channel holds while
\* the coordinator was idle.
C25_CommandsExecuted ==
    (cmdQ # <<>>) ~> (cmdQ = <<>> \/ RuntimeGone)

\* C26: once the bootstrap task has ended the router puts no further event on
\* the bootstrap channel, and the forward to the bootstrap channel never ends
\* the runtime, whenever the task ends relative to the router's closed-check
\* and send.
C26_BootstrapEndIsQuiet ==
    /\ [][BootstrapEnded => bsQ' = bsQ]_vars
    /\ [](~(RuntimeGone /\ hist.rt_cause = "bootstrap event"))

\* The message is an `I HAVE RELAYS` response naming peer p
NamesPeer(message, p) ==
    Len(message) >= 2 /\ message[1] = I_HAVE_RELAYS_PREFIX /\ message[2] = p

\* C27: while the coordinator waits for the relay response of its target, a
\* response naming another peer, with or without relay addresses, is
\* ignored: the coordinator stays in the wait for the same request and
\* submits no command.
C27_OtherResponseIgnored ==
    [][(/\ hp_pc = "wait_resp"
        /\ hpQ # <<>>
        /\ Head(hpQ).kind = "GossipMessage"
        /\ \E p \in PeerIds \ {hp.target} : NamesPeer(Head(hpQ).msg, p)
        /\ hpQ' = Tail(hpQ))
       => (hp_pc' = "wait_resp" /\ hp' = hp /\ hist'.hpCmds = hist.hpCmds)]_vars

\* C28: the coordinator submits the circuit dial through a possible relay
\* only when the dial of that relay ended with ConnectionEstablished; after
\* an OutgoingConnectionError it submits none for that relay.
C28_PunchOnlyThroughConnectedRelay ==
    [][(hp_pc = "candidate_exec" /\ Len(hist'.hpCmds) > Len(hist.hpCmds))
       => hp.dialed = "ConnectionEstablished"]_vars

\* C29: every circuit address the coordinator dials, through a common relay
\* and through a possible relay alike, is
\* <relay_multiaddr>/p2p/<relay_peer>/p2p-circuit/p2p/<target>: it carries
\* the relay's multiaddress, the relay's peer id and the id of the target of
\* its request.
C29_CircuitAddressForm ==
    \A i \in DOMAIN hist.hpCmds :
        LET c == hist.hpCmds[i].cmd IN
        c.kind = "Dial" /\ c.addr.circuit =>
            /\ c.addr.base \in RealAddrs
            /\ c.addr.relay_peer \in PeerIds
            /\ c.addr.target = hist.taken[hist.hpCmds[i].req]

\* The Dial is a circuit dial through a common relay (the relay's peer id is
\* known only for those)
IsCommonDial(c) == c.kind = "Dial" /\ c.addr.circuit /\ c.addr.relay_peer # NoPeer

\* The Dial is about a possible relay: the dial of its plain multiaddress, or
\* the circuit dial through it
IsCandidateDial(c) == c.kind = "Dial" /\ ~IsCommonDial(c)

\* q can be got from s by leaving out elements
RECURSIVE IsSubsequence(_, _)
IsSubsequence(q, s) ==
    IF q = <<>> THEN TRUE
    ELSE IF s = <<>> THEN FALSE
    ELSE IF Head(q) = Head(s) THEN IsSubsequence(Tail(q), Tail(s))
    ELSE IsSubsequence(q, Tail(s))

\* The relay multiaddresses of the Dials of request r that satisfy Test, in
\* the order of submission
DialedFor(r, Test(_)) ==
    LET of == SelectSeq(hist.hpCmds, LAMBDA h : h.req = r /\ Test(h.cmd))
    IN  [i \in DOMAIN of |-> of[i].cmd.addr.base]

\* C30: within one request the common relays are tried in the order of the
\* response, all of them before any possible relay is dialed, and when the
\* coordinator receives the successful DCUtR result of an attempt for the
\* target it ends the request: no further Dial is submitted for it.
C30_CommonFirstStopOnSuccess ==
    /\ [](\A i, j \in DOMAIN hist.hpCmds :
             (/\ i < j
              /\ hist.hpCmds[i].req = hist.hpCmds[j].req
              /\ IsCandidateDial(hist.hpCmds[i].cmd))
             => ~IsCommonDial(hist.hpCmds[j].cmd))
    /\ [](hp_pc \notin {"recv_req", "failed"} =>
             /\ IsSubsequence(DialedFor(hp.req, IsCommonDial), hp.response)
             /\ DialedFor(hp.req, IsCandidateDial) # <<>> => hp.common = <<>>)
    /\ [][(/\ hp_pc = "exec_wait"
           /\ hpQ # <<>>
           /\ Head(hpQ) = DcutrResult(hp.target, TRUE)
           /\ hpQ' = Tail(hpQ))
          => (hp_pc' = "recv_req" /\ hist'.hpCmds = hist.hpCmds)]_vars
    /\ [][Len(hist'.hpCmds) > Len(hist.hpCmds) =>
             /\ hp_pc \notin {"recv_req", "failed"}
             /\ hist'.hpCmds[Len(hist'.hpCmds)].req = hp.req
             /\ hp.req = Len(hist.taken)]_vars

\* C30: a response listed the possible relay a2 before the common relay a1;
\* the common relay was tried first, then the possible relay was dialed and
\* tried, and its success ended the request.
C30_CommonThenCandidateThenSuccess ==
    /\ hp_pc = "recv_req"
    /\ Len(hist.taken) = 1
    /\ DialedFor(1, IsCommonDial) = <<"a1">>
    /\ DialedFor(1, IsCandidateDial) = <<"a2", "a2">>
    /\ hpQ = <<>>
    /\ nEvents = 4
    /\ rt_pc = "select"
    /\ cmdQ = <<>>

\* C31: a hole-punch attempt ends only on a DCUtR result about the target:
\* the successful one ends the request, the failed one ends the attempt and
\* the coordinator goes to the next relay; a DCUtR result about another peer
\* and every other event is consumed, the attempt goes on and no command is
\* submitted.
C31_AttemptEndsOnTargetResult ==
    [][(hp_pc = "exec_wait" /\ hpQ # <<>> /\ hpQ' = Tail(hpQ)) =>
          LET e == Head(hpQ) IN
          /\ hist'.hpCmds = hist.hpCmds
          /\ IF e.kind = "Dcutr" /\ e.peer = hp.target
             THEN IF e.ok THEN hp_pc' = "recv_req"
                  ELSE /\ hp_pc' \in {"common", "candidate"}
                       /\ Len(hp'.common) + Len(hp'.todial) = Len(hp.common) + Len(hp.todial) - 1
             ELSE hp_pc' = "exec_wait" /\ hp' = hp]_vars

\* C31: during an attempt for p1 the coordinator has consumed a successful
\* DCUtR result about p2, emitted after the response, and the attempt goes on.
C31_OtherResultConsumed ==
    /\ hp_pc = "exec_wait"
    /\ hp.target = "p1"
    /\ hpQ = <<>>
    /\ rt_pc = "select"
    /\ Len(hist.emitted) = 2
    /\ hist.emitted[1].kind = "GossipMessage"
    /\ hist.emitted[2] = DcutrResult("p2", TRUE)

\* C32: compare_relay_lists partitions their_relays: the multiaddresses that
\* no local relay has are relays_to_dial, in the order of their_relays; the
\* others are common_relays, in the order of their_relays, each as a Peer of
\* my_relays with that multiaddress; the two lengths add up to the length of
\* their_relays.
C32_ComparePartitions ==
    calc.fn = "compare_relay_lists" =>
        LET my == calc.in.my_relays
            theirs == calc.in.their_relays
            Mine(a) == \E p \in my : p.multiaddr = a
            NotMine(a) == ~Mine(a)
            common == calc.out.common
            to_dial == calc.out.to_dial
        IN  /\ to_dial = SelectSeq(theirs, NotMine)
            /\ [i \in DOMAIN common |-> common[i].multiaddr] = SelectSeq(theirs, Mine)
            /\ \A i \in DOMAIN common : common[i] \in my
            /\ Len(common) + Len(to_dial) = Len(theirs)
            /\ \A i \in DOMAIN theirs :
                  Mine(theirs[i]) <=> ~(\E j \in DOMAIN to_dial : to_dial[j] = theirs[i])

\* C32: a list that names a multiaddress of no local relay twice, around the
\* multiaddress of a local relay, has been compared
C32_Compared ==
    /\ calc.fn = "compare_relay_lists"
    /\ calc.in.my_relays = {Peer("a1", "p1"), Peer("a2", "p2")}
    /\ calc.in.their_relays = <<"lo", "a2", "lo">>
    /\ calc.out = [common |-> <<Peer("a2", "p2")>>, to_dial |-> <<"lo", "lo">>]

\* C33: no Dial the coordinator submits, of a relay or of a circuit address,
\* is built on a multiaddress whose IPv4 part is 127.0.0.1, and no such
\* multiaddress is among the possible relays or in either list of the
\* partition.
C33_NoLoopbackDial ==
    /\ \A i \in DOMAIN hist.hpCmds :
          hist.hpCmds[i].cmd.kind = "Dial" =>
              ~IsLoopback(AddrParts(hist.hpCmds[i].cmd.addr.base))
    /\ \A i \in DOMAIN hp.possible : ~IsLoopback(AddrParts(hp.possible[i]))
    /\ \A i \in DOMAIN hp.common : ~IsLoopback(AddrParts(hp.common[i].multiaddr))
    /\ \A i \in DOMAIN hp.todial : ~IsLoopback(AddrParts(hp.todial[i]))

\* C33: the response that lists a2 and the loopback multiaddress was taken
\* and the relay a2 of it has been dialed
C33_LoopbackDiscarded ==
    /\ hp.response = <<"a2">>
    /\ \E i \in DOMAIN hist.hpCmds :
          hist.hpCmds[i].cmd.kind = "Dial" /\ hist.hpCmds[i].cmd.addr = Plain("a2")

\* The multiaddresses of the Dial commands the bootstrap task has submitted,
\* in the order of their submission: those the runtime has executed (in
\* SpecBootstrap no other task submits a Dial), then those in the command
\* channel
BootstrapDials ==
    LET done == SelectSeq(provLog, LAMBDA l : l.op = "dial" /\ l.via = "command")
        waiting == SelectSeq(cmdQ, LAMBDA c : c.kind = "Dial" /\ c.from = "bootstrap")
    IN  [i \in DOMAIN done |-> done[i].addr] \o [i \in DOMAIN waiting |-> waiting[i].addr]

\* C34: the bootstrap task dials the configured peers one after the other in
\* the order of the configuration: the Dials it has submitted are those of
\* the peers before the one it is at, and of that one while it waits for it;
\* a wait ends, and the task goes on to the next Dial, only on a
\* ConnectionEstablished of the awaited peer or an OutgoingConnectionError.
C34_SequentialDials ==
    /\ [](LET n == CASE bs_pc = "wait" -> bs_i
                     [] bs_pc = "dial" -> bs_i - 1
                     [] bs_pc = "failed" -> Len(BootstrapDials)
                     [] OTHER -> Len(cfg_peers)
          IN  /\ n <= Len(cfg_peers)
              /\ BootstrapDials = [k \in 1..n |-> Plain(cfg_peers[k].multiaddr)])
    /\ [][(bs_pc = "wait" /\ bs_pc' = "dial") =>
             /\ bsQ # <<>>
             /\ \/ Head(bsQ) = ConnectionEstablished(cfg_peers[bs_i].peer_id)
                \/ Head(bsQ).kind = "OutgoingConnectionError"
             /\ bs_i' = bs_i + 1]_vars
    /\ [][(bs_pc = "dial" /\ bs_pc' = "wait") =>
             /\ bs_i' = bs_i
             /\ cmdQ' = Append(cmdQ, Cmd("Dial", "bootstrap", Plain(cfg_peers[bs_i].multiaddr),
                                         <<>>, NoSlot))]_vars

\* C34: p1 has connected, its Dial was executed, and the Dial of the second
\* configured peer waits in the command channel
C34_SecondPeerDialed ==
    /\ cfg_peers = <<Peer("a1", "p1"), Peer("a2", "p2")>>
    /\ bs_pc = "wait" /\ bs_i = 2 /\ failed_to_dial = <<>>
    /\ BootstrapDials = <<Plain("a1"), Plain("a2")>>
    /\ Len(cmdQ) = 1

\* C35: the bootstrap task waiting for configured peer P takes one event at
\* a time: a ConnectionEstablished of another peer leaves it waiting for P,
\* a ConnectionEstablished of P ends the wait with nothing queued, and an
\* OutgoingConnectionError ends the wait with P appended to failed_to_dial.
C35_WaitEndsOnOwnConnectionOrError ==
    [][(bs_pc = "wait" /\ bsQ # <<>> /\ bsQ' = Tail(bsQ)) =>
          LET e == Head(bsQ)
              P == cfg_peers[bs_i]
          IN  CASE e.kind = "ConnectionEstablished" /\ e.peer # P.peer_id ->
                     bs_pc' = "wait" /\ bs_i' = bs_i /\ failed_to_dial' = failed_to_dial
                [] e.kind = "ConnectionEstablished" /\ e.peer = P.peer_id ->
                     bs_pc' = "dial" /\ bs_i' = bs_i + 1 /\ failed_to_dial' = failed_to_dial
                [] e.kind = "OutgoingConnectionError" ->
                     /\ bs_pc' = "dial" /\ bs_i' = bs_i + 1
                     /\ failed_to_dial' = Append(failed_to_dial, P)
                [] OTHER -> FALSE]_vars

\* C35: the task waits for p1, and the only event so far, the
\* ConnectionEstablished of p2, has gone through its channel and been taken
C35_OtherConnectionSkipped ==
    /\ cfg_peers # <<>> /\ cfg_peers[1].peer_id = "p1"
    /\ bs_pc = "wait" /\ bs_i = 1 /\ failed_to_dial = <<>>
    /\ hist.emitted = <<ConnectionEstablished("p2")>>
    /\ rt_pc = "select" /\ bsQ = <<>>

\* The peer ids the bootstrap task has sent on the request channel, in the
\* order of sending
BootstrapRequests ==
    LET sent == SelectSeq(hist.requests, LAMBDA r : r.by = "bootstrap") IN
    [i \in DOMAIN sent |-> sent[i].peer]

\* C36: the bootstrap task sends no request while it goes through cfg.peers;
\* it sends after every configured peer was dialed and its wait was over,
\* and only when some dial succeeded; what it sends are the peer ids of
\* failed_to_dial, one each, from the first on, and failed_to_dial holds
\* the failed peers in the order of the configuration; when the task is done
\* it has sent them all.
C36_RequestsAfterThePass ==
    LET ids == [i \in DOMAIN failed_to_dial |-> failed_to_dial[i].peer_id] IN
    /\ IsSubsequence(failed_to_dial, cfg_peers)
    /\ bs_pc \in {"dial", "wait", "check", "fatal"} => BootstrapRequests = <<>>
    /\ bs_pc = "request" => BootstrapRequests = SubSeq(ids, 1, bs_i - 1)
    /\ bs_pc = "done" => BootstrapRequests = ids
    /\ bs_pc = "failed" =>
          \E n \in 0..Len(ids) : BootstrapRequests = SubSeq(ids, 1, n)
    /\ BootstrapRequests # <<>> =>
          /\ Len(BootstrapDials) = Len(cfg_peers)
          /\ Len(failed_to_dial) < Len(cfg_peers)
    /\ bs_pc \in {"request", "done"} =>
          /\ Len(BootstrapDials) = Len(cfg_peers)
          /\ Len(failed_to_dial) < Len(cfg_peers) \/ cfg_peers = <<>>

\* C36: of three configured peers the first connected and the dials of the
\* two others failed; the task is done and has sent the two requests
C36_TwoRequestsSent ==
    /\ cfg_peers = <<Peer("a1", "p1"), Peer("a2", "p2"), Peer("a1", "p1")>>
    /\ bs_pc = "done"
    /\ failed_to_dial = <<Peer("a2", "p2"), Peer("a1", "p1")>>
    /\ BootstrapRequests = <<"p2", "p1">>
    /\ reqQ = <<"p2", "p1">>

\* The peer ids the runtime has sent on the request channel
RuntimeRequests ==
    LET sent == SelectSeq(hist.requests, LAMBDA r : r.by = "runtime") IN
    [i \in DOMAIN sent |-> sent[i].peer]

\* The peers of the Kademlia bootstrap timeouts the common handler has taken
HandledTimeouts ==
    LET taken == SelectSeq(hist.handled, LAMBDA e : e.kind = "KadBootstrapTimeout") IN
    [i \in DOMAIN taken |-> taken[i].peer]

\* C37: a peer id is appended to the request channel only by the bootstrap
\* task after its pass, for the next peer of failed_to_dial, or by the
\* runtime for the peer of the Kademlia bootstrap timeout it is handling; the
\* runtime has sent one request for each timeout handled; an
\* OutgoingConnectionError in the common handler changes nothing but the
\* log.
C37_RequestsFromTwoSources ==
    /\ [][Len(reqQ') > Len(reqQ) =>
             \E p \in PeerIds :
                /\ reqQ' = Append(reqQ, p)
                /\ \/ /\ bs_pc = "request" /\ bs_i <= Len(failed_to_dial)
                      /\ p = failed_to_dial[bs_i].peer_id
                      /\ bs_i' = bs_i + 1 /\ rt_pc' = rt_pc
                   \/ /\ rt_pc = "send_req" /\ rt_event = KadBootstrapTimeout(p)
                      /\ rt_pc' = "select" /\ bs_i' = bs_i]_vars
    /\ [][(rt_pc = "common" /\ rt_event.kind = "OutgoingConnectionError" /\ rt_pc' # rt_pc) =>
             /\ rt_pc' = "select"
             /\ UNCHANGED <<reqQ, swarm, relays, provLog, cmdQ, bsQ, hpQ, failed_to_dial>>
             /\ hist'.requests = hist.requests]_vars
    /\ [](rt_pc \notin {"send_req", "panicked"} => RuntimeRequests = HandledTimeouts)
    /\ [](rt_pc = "send_req" => <<rt_event.peer>> = SubSeq(HandledTimeouts, Len(RuntimeRequests) + 1,
                                                           Len(HandledTimeouts)))

\* C37: the dial of the configured peer p2 failed and the bootstrap task has
\* asked for a hole punch to it; then the runtime handled a Kademlia
\* bootstrap timeout of p2 and asked again
C37_BothSourcesSent ==
    /\ cfg_peers = <<Peer("a1", "p1"), Peer("a2", "p2")>>
    /\ bs_pc = "done"
    /\ hist.requests = <<[peer |-> "p2", by |-> "bootstrap"], [peer |-> "p2", by |-> "runtime"]>>
    /\ hist.emitted = <<ConnectionEstablished("p1"), OutgoingConnectionError,
                        KadBootstrapTimeout("p2")>>

\* C38: the RelaySet changes only in the common handler of an
\* IdentifyReceived event whose protocols contain the hop protocol, and then
\* by the insertion of relays of that peer at its listen addresses; every
\* other step, the handling of a ConnectionClosed and the execution of a
\* command among them, leaves it as it is, and no step takes an entry out.
C38_RelaySetOnlyGrows ==
    /\ [][relays' # relays =>
             /\ rt_pc = "common"
             /\ rt_event.kind = "IdentifyReceived" /\ rt_event.hop
             /\ \A r \in relays' \ relays :
                   /\ r.peer_id = rt_event.peer
                   /\ \E i \in DOMAIN rt_event.addrs : r.multiaddr = rt_event.addrs[i]]_vars
    /\ [][relays \subseteq relays']_vars

\* C38: p2 was taken for a relay at a1 and a2, then its connection was
\* closed and a command was executed: the RelaySet still holds both entries
C38_RelayKeptAfterClose ==
    /\ hist.handled = <<IdentifyReceived("p2", <<"a1", "a2">>, TRUE), ConnectionClosed("p2")>>
    /\ rt_pc = "select" /\ cmdQ = <<>> /\ cl_n = 1 /\ cl_pc = "idle"
    /\ relays = {Peer("a1", "p2"), Peer("a2", "p2")}

\* C39: a configured peer is in failed_to_dial only if the provider has
\* reported the failure of a dial aimed at that peer.
C39_FailedOnlyByOwnDial ==
    \A i \in DOMAIN failed_to_dial :
        \E j \in DOMAIN hist.emitted :
            hist.emitted[j] = OutgoingConnectionErrorOf(failed_to_dial[i].peer_id)

\* A command of the coordinator of that kind is still in the command
\* channel: the runtime has not executed it
HpCommandWaiting(kind) ==
    \E i \in DOMAIN cmdQ : cmdQ[i].from = "holepunch" /\ cmdQ[i].kind = kind

\* C40: a coordinator wait is ended by an event that was emitted after the
\* action it answers.  The response loop accepts a relay response, and the
\* wait for the dial of a possible relay ends, only when the runtime has
\* executed the publish, or the Dial, that the coordinator has submitted:
\* an event taken from the channel before that was emitted before the
\* action.
C40_WaitEndedByLaterEvent ==
    /\ [][(hp_pc = "wait_resp" /\ hp_pc' = "my_relays") =>
             ~HpCommandWaiting("GossipsubPublish")]_vars
    /\ [][(hp_pc = "candidate_wait" /\ hp_pc' = "candidate_exec") =>
             ~HpCommandWaiting("Dial")]_vars

=============================================================================
